---- MODULE Spec2Model ----
(***************************************************************************)
(* Model of the PR watcher (watcher.js): the polling loop pollForIssues,   *)
(* its retained state (seen ids, ready flag, previous-blocking flag, last  *)
(* merge-queue state), the fetchers whose results it merges, and the       *)
(* timer / keyboard handlers that start polls.                             *)
(*                                                                         *)
(* pollForIssues is an async function: every await is a point where other  *)
(* handlers may run, so one poll is a sequence of steps, one per await.    *)
(***************************************************************************)
EXTENDS Integers, Sequences, FiniteSets, TLC

\* ------------------------------------------------------------------ bounds
\* Number of polls started in one run of the process.
MaxPolls == 4
\* Number of polls started in one run when polls may overlap; every one of
\* them may be suspended at the same time.
MaxOverlapPolls == 2

\* Number of records (threads, check runs, commit statuses) in one answer
\* of the platform when a fetcher is applied on its own.
MaxBatch == 2

\* Largest number the platform gives to a comment, a check run or a commit
\* status when the ids of the issues are compared.
MaxNumber == 11

Slots == 1..MaxOverlapPolls

\* JavaScript null / undefined, per type: a missing string-valued field
\* (state, url, conclusion), a missing name or login (names are character
\* sequences), a missing number.
NULL == "null"
NoName == << "undefined" >>
NoPosition == -1

\* ------------------------------------------------------------- strings
\* Names are sequences of one-character strings so that toLowerCase() and
\* includes() are computed rather than assumed.
UpperChars == <<"A","B","C","D","E","F","G","H","I","J","K","L","M",
                "N","O","P","Q","R","S","T","U","V","W","X","Y","Z">>
LowerChars == <<"a","b","c","d","e","f","g","h","i","j","k","l","m",
                "n","o","p","q","r","s","t","u","v","w","x","y","z">>

ToLowerChar(c) ==
  IF \E i \in 1..Len(UpperChars) : UpperChars[i] = c
  THEN LowerChars[CHOOSE i \in 1..Len(UpperChars) : UpperChars[i] = c]
  ELSE c

ToLowerCase(s) == [i \in 1..Len(s) |-> ToLowerChar(s[i])]

\* String.prototype.includes
Includes(s, pat) ==
  \E k \in 0..(Len(s) - Len(pat)) :
     \A j \in 1..Len(pat) : s[k + j] = pat[j]

REVIEW_BOTS ==
  << <<"c","u","r","s","o","r">>,
     <<"c","o","d","e","x","-","c","o","n","n","e","c","t","o","r">>,
     <<"c","o","d","e","x">> >>

DEFAULT_NON_BLOCKING_CI ==
  << <<"s","l","a","c","k">>,
     <<"n","o","t","i","f","i","c","a","t","i","o","n">>,
     <<"e","m","o","j","i">>,
     <<"a","d","d"," ","r","e","a","c","t","i","o","n">>,
     <<"c","o","v","e","r","a","g","e">>,
     <<"c","o","d","e","c","o","v">>,
     <<"d","e","q","u","e","_","n","o","t","i","f","y">>,
     <<"d","e","q","u","e","u","e">> >>

\* String.prototype.split(',') and String.prototype.trim (of blanks).
RECURSIVE SplitComma(_)
SplitComma(s) ==
  IF \E i \in 1..Len(s) : s[i] = ","
  THEN LET i == CHOOSE k \in 1..Len(s) : s[k] = "," /\ \A m \in 1..(k - 1) : s[m] # ","
       IN << SubSeq(s, 1, i - 1) >> \o SplitComma(SubSeq(s, i + 1, Len(s)))
  ELSE << s >>

RECURSIVE Trim(_)
Trim(s) ==
  IF s = << >> THEN s
  ELSE IF Head(s) = " " THEN Trim(Tail(s))
  ELSE IF s[Len(s)] = " " THEN Trim(SubSeq(s, 1, Len(s) - 1))
  ELSE s

\* process.env.NON_BLOCKING_CI of the watcher process (unset).
EnvNonBlockingCI == NoName

\* getNonBlockingPatterns for a value of process.env.NON_BLOCKING_CI.
NonBlockingPatternsOf(envPatterns) ==
  IF envPatterns = NoName \/ envPatterns = << >> THEN DEFAULT_NON_BLOCKING_CI
  ELSE LET parts == SplitComma(envPatterns)
       IN DEFAULT_NON_BLOCKING_CI \o [i \in 1..Len(parts) |-> ToLowerCase(Trim(parts[i]))]

GetNonBlockingPatterns == NonBlockingPatternsOf(EnvNonBlockingCI)

\* Variant: the job name is matched as it is written.
IsNonBlockingCIWith_CaseSensitive(jobName, patterns) ==
  IF jobName = NoName \/ jobName = << >> THEN FALSE
  ELSE \E i \in 1..Len(patterns) : Includes(jobName, patterns[i])

\* isNonBlockingCI, given what getNonBlockingPatterns returns.
IsNonBlockingCIWith(jobName, patterns) ==
  IF jobName = NoName \/ jobName = << >> THEN FALSE
  ELSE \E i \in 1..Len(patterns) : Includes(ToLowerCase(jobName), patterns[i])

IsNonBlockingCI(jobName) == IsNonBlockingCIWith(jobName, GetNonBlockingPatterns)

IsReviewBot(username) ==
  IF username = NoName \/ username = << >> THEN FALSE
  ELSE \E i \in 1..Len(REVIEW_BOTS) :
          Includes(ToLowerCase(username), REVIEW_BOTS[i])

\* ------------------------------------------------------ sequence helpers
RECURSIVE SeqToSet(_)
SeqToSet(s) == IF s = << >> THEN {} ELSE {Head(s)} \cup SeqToSet(Tail(s))

Ids(issues) == { issues[i].id : i \in 1..Len(issues) }

\* JavaScript truthiness of a string-valued field and of a number.
TruthyStr(x) == x # NULL /\ x # ""
TruthyNum(x) == x # NoPosition /\ x # 0

\* --------------------------------------------------------------- fetchers
\* A raw GraphQL result is [ok, threads]; a thread is
\* [isResolved, isOutdated, comments], a comment [databaseId, login].
\* A raw REST result is [ok, comments]; a comment is
\* [id, login, position, original_position].

\* A number in a template literal: its decimal digits.
DigitChars == <<"0","1","2","3","4","5","6","7","8","9">>

RECURSIVE ToDigits(_)
ToDigits(n) ==
  IF n < 10 THEN << DigitChars[n + 1] >>
  ELSE ToDigits(n \div 10) \o << DigitChars[(n % 10) + 1] >>

\* `review-${comment.databaseId}`, `review-${comment.id}`
ReviewId(n) == <<"r","e","v","i","e","w","-">> \o ToDigits(n)
\* `issue-${c.id}`
CommentId(n) == <<"i","s","s","u","e","-">> \o ToDigits(n)
\* `ci-${run.id}`
RunId(n) == <<"c","i","-">> \o ToDigits(n)
\* Variant: commit statuses are numbered like check runs.
StatusId_AsRun(n) == <<"c","i","-">> \o ToDigits(n)
\* `status-${status.id}`
StatusId(n) == <<"s","t","a","t","u","s","-">> \o ToDigits(n)

\* Comment issues carry no nonBlocking field; undefined is falsy, as FALSE.
ReviewIssue(n) == [id |-> ReviewId(n), type |-> "review_bot",
                   name |-> NoName, url |-> NULL, nonBlocking |-> FALSE]

RECURSIVE BotCommentsOfThread(_)
BotCommentsOfThread(cs) ==
  IF cs = << >> THEN << >>
  ELSE (IF IsReviewBot(Head(cs).login) THEN << ReviewIssue(Head(cs).databaseId) >> ELSE << >>)
       \o BotCommentsOfThread(Tail(cs))

\* Variant: outdated threads are kept.
RECURSIVE ProcessThreads_KeepsOutdated(_)
ProcessThreads_KeepsOutdated(ts) ==
  IF ts = << >> THEN << >>
  ELSE (IF Head(ts).isResolved
        THEN << >>
        ELSE BotCommentsOfThread(Head(ts).comments))
       \o ProcessThreads_KeepsOutdated(Tail(ts))

RECURSIVE ProcessThreads(_)
ProcessThreads(ts) ==
  IF ts = << >> THEN << >>
  ELSE (IF Head(ts).isResolved \/ Head(ts).isOutdated
        THEN << >>
        ELSE BotCommentsOfThread(Head(ts).comments))
       \o ProcessThreads(Tail(ts))

\* Variant: the REST path numbers its issues like general comments.
RECURSIVE ProcessRESTComments_OtherId(_)
ProcessRESTComments_OtherId(cs) ==
  IF cs = << >> THEN << >>
  ELSE LET c == Head(cs)
           isOutdated == c.position = NoPosition /\ c.original_position # NoPosition
       IN (IF IsReviewBot(c.login) /\ ~isOutdated
           THEN << [ReviewIssue(c.id) EXCEPT !.id = CommentId(c.id)] >> ELSE << >>)
          \o ProcessRESTComments_OtherId(Tail(cs))

RECURSIVE ProcessRESTComments(_)
ProcessRESTComments(cs) ==
  IF cs = << >> THEN << >>
  ELSE LET c == Head(cs)
           isOutdated == c.position = NoPosition /\ c.original_position # NoPosition
       IN (IF IsReviewBot(c.login) /\ ~isOutdated THEN << ReviewIssue(c.id) >> ELSE << >>)
          \o ProcessRESTComments(Tail(cs))

GetCursorbotCommentsREST(rest) ==
  IF rest.ok THEN ProcessRESTComments(rest.comments) ELSE << >>

GetCursorbotComments(raw) ==
  IF raw.graphql.ok THEN ProcessThreads(raw.graphql.threads)
  ELSE GetCursorbotCommentsREST(raw.rest)

\* Variant: general comments do not block.
CommentIssue_NonBlocking(n) == [id |-> CommentId(n), type |-> "cursorbot",
                                name |-> NoName, url |-> NULL, nonBlocking |-> TRUE]

\* General PR comments: only authors whose login contains 'cursor'.
CommentIssue(n) == [id |-> CommentId(n), type |-> "cursorbot",
                    name |-> NoName, url |-> NULL, nonBlocking |-> FALSE]

RECURSIVE ProcessIssueComments(_)
ProcessIssueComments(cs) ==
  IF cs = << >> THEN << >>
  ELSE (IF Head(cs).login # NoName
           /\ Includes(ToLowerCase(Head(cs).login), <<"c","u","r","s","o","r">>)
        THEN << CommentIssue(Head(cs).id) >> ELSE << >>)
       \o ProcessIssueComments(Tail(cs))

GetPRIssueComments(raw) ==
  IF raw.ok THEN ProcessIssueComments(raw.comments) ELSE << >>

\* A raw CI result is [failAt, runs, statuses]: failAt names the request
\* that threw ("none", "pr", "checks", "statuses"); a run is
\* [id, name, status, conclusion, url], a status [id, context, state, target_url].
RECURSIVE FailedRuns(_)
FailedRuns(runs) ==
  IF runs = << >> THEN << >>
  ELSE LET run == Head(runs)
       IN (IF run.conclusion \in {"failure", "cancelled", "timed_out"}
           THEN << [id |-> RunId(run.id), type |-> "ci_failure",
                    name |-> run.name, url |-> run.url,
                    nonBlocking |-> IsNonBlockingCI(run.name)] >>
           ELSE << >>)
          \o FailedRuns(Tail(runs))

LowerOrNull(s) == IF s = NoName THEN NoName ELSE ToLowerCase(s)

\* Variant: only the URLs are compared.
IsDuplicateStatus_UrlOnly(issues, status) ==
  \E k \in 1..Len(issues) : issues[k].url = status.target_url

IsDuplicateStatus(issues, status) ==
  \E k \in 1..Len(issues) :
     \/ issues[k].url = status.target_url
     \/ LowerOrNull(issues[k].name) = LowerOrNull(status.context)

RECURSIVE AddFailedStatuses(_, _)
AddFailedStatuses(issues, statuses) ==
  IF statuses = << >> THEN issues
  ELSE LET status == Head(statuses)
       IN IF status.state \in {"failure", "error"} /\ ~IsDuplicateStatus(issues, status)
          THEN AddFailedStatuses(
                 Append(issues,
                        [id |-> StatusId(status.id), type |-> "ci_failure",
                         name |-> status.context, url |-> status.target_url,
                         nonBlocking |-> IsNonBlockingCI(status.context)]),
                 Tail(statuses))
          ELSE AddFailedStatuses(issues, Tail(statuses))

\* Variant: a request that throws leaves nothing of the check runs.
GetCIFailures_NothingOnThrow(raw) ==
  IF raw.failAt # "none" THEN << >>
  ELSE AddFailedStatuses(FailedRuns(raw.runs), raw.statuses)

GetCIFailures(raw) ==
  IF raw.failAt \in {"pr", "checks"} THEN << >>
  ELSE IF raw.failAt = "statuses" THEN FailedRuns(raw.runs)
  ELSE AddFailedStatuses(FailedRuns(raw.runs), raw.statuses)

\* checkCIStatus: the counters are updated as the runs and statuses are
\* walked; allGreen is assigned only when nothing threw.
EmptyCIStatus == [allGreen |-> FALSE, pending |-> 0, passed |-> 0, failed |-> 0,
                  nonBlockingFailed |-> 0, total |-> 0]

RECURSIVE CountRuns(_, _)
CountRuns(result, runs) ==
  IF runs = << >> THEN result
  ELSE LET run == Head(runs)
           r1 == [result EXCEPT !.total = @ + 1]
           r2 == IF run.status # "completed" THEN [r1 EXCEPT !.pending = @ + 1]
                 ELSE IF run.conclusion \in {"success", "skipped", "neutral"}
                      THEN [r1 EXCEPT !.passed = @ + 1]
                 ELSE IF IsNonBlockingCI(run.name)
                      THEN [r1 EXCEPT !.nonBlockingFailed = @ + 1]
                 ELSE [r1 EXCEPT !.failed = @ + 1]
       IN CountRuns(r2, Tail(runs))

RECURSIVE CountStatuses(_, _)
CountStatuses(result, statuses) ==
  IF statuses = << >> THEN result
  ELSE LET status == Head(statuses)
           r1 == [result EXCEPT !.total = @ + 1]
           r2 == IF status.state = "pending" THEN [r1 EXCEPT !.pending = @ + 1]
                 ELSE IF status.state = "success" THEN [r1 EXCEPT !.passed = @ + 1]
                 ELSE IF IsNonBlockingCI(status.context)
                      THEN [r1 EXCEPT !.nonBlockingFailed = @ + 1]
                 ELSE [r1 EXCEPT !.failed = @ + 1]
       IN CountStatuses(r2, Tail(statuses))

\* Variant: pending checks are not looked at.
AllGreen_IgnoresPending(result) == result.total > 0 /\ result.failed = 0

AllGreen(result) == result.total > 0 /\ result.pending = 0 /\ result.failed = 0

CheckCIStatus(raw) ==
  IF raw.failAt \in {"pr", "checks"} THEN EmptyCIStatus
  ELSE IF raw.failAt = "statuses" THEN CountRuns(EmptyCIStatus, raw.runs)
  ELSE LET counted == CountStatuses(CountRuns(EmptyCIStatus, raw.runs), raw.statuses)
       IN [counted EXCEPT !.allGreen = AllGreen(counted)]

\* checkMergeQueueStatus: a raw result is [prOk, merged, gqlOk, hasEntry,
\* state, position]; state and position are the entry's when hasEntry.
EmptyQueueStatus == [inQueue |-> FALSE, position |-> NoPosition, state |-> NULL,
                     merged |-> FALSE, aheadCount |-> NoPosition]

CheckMergeQueueStatus(raw) ==
  IF ~raw.prOk THEN EmptyQueueStatus
  ELSE IF raw.merged THEN [EmptyQueueStatus EXCEPT !.merged = TRUE, !.state = "MERGED"]
  ELSE IF ~raw.gqlOk \/ ~raw.hasEntry THEN EmptyQueueStatus
  ELSE [EmptyQueueStatus EXCEPT !.inQueue = TRUE,
                                !.position = raw.position,
                                !.state = raw.state,
                                !.aheadCount = IF TruthyNum(raw.position)
                                               THEN raw.position ELSE 0]

\* ----------------------------------------------------- platform snapshots
\* What the platform may answer to one request.  Every fetch of every poll
\* draws its answer from these sets, independently of the other fetches.
CursorLogin == <<"c","u","r","s","o","r","[","b","o","t","]">>
HumanLogin == <<"a","l","i","c","e">>
BuildName == <<"b","u","i","l","d">>
SlackName == <<"S","l","a","c","k"," ","n","o","t","i","f","y">>

NoGraphQL == [ok |-> FALSE, threads |-> << >>]
NoREST == [ok |-> FALSE, comments |-> << >>]
BotThread(resolved, outdated) ==
  [isResolved |-> resolved, isOutdated |-> outdated,
   comments |-> << [databaseId |-> 1, login |-> CursorLogin],
                   [databaseId |-> 5, login |-> HumanLogin] >>]

ReviewSnapshots ==
  { [graphql |-> [ok |-> TRUE, threads |-> << >>], rest |-> NoREST],
    [graphql |-> [ok |-> TRUE, threads |-> << BotThread(FALSE, FALSE) >>], rest |-> NoREST],
    [graphql |-> [ok |-> TRUE, threads |-> << BotThread(TRUE, FALSE) >>], rest |-> NoREST],
    [graphql |-> NoGraphQL,
     rest |-> [ok |-> TRUE,
               comments |-> << [id |-> 1, login |-> CursorLogin,
                                position |-> 3, original_position |-> 3] >>]],
    [graphql |-> NoGraphQL, rest |-> NoREST] }

CommentSnapshots ==
  { [ok |-> TRUE, comments |-> << >>],
    [ok |-> TRUE, comments |-> << [id |-> 1, login |-> CursorLogin],
                                  [id |-> 6, login |-> HumanLogin] >>],
    [ok |-> FALSE, comments |-> << >>] }

BuildRun(status, conclusion) ==
  [id |-> 1, name |-> BuildName, status |-> status, conclusion |-> conclusion, url |-> "u1"]
SlackStatus(state) ==
  [id |-> 2, context |-> SlackName, state |-> state, target_url |-> "u2"]

CISnapshots ==
  { [failAt |-> "pr", runs |-> << >>, statuses |-> << >>],
    [failAt |-> "none", runs |-> << >>, statuses |-> << >>],
    [failAt |-> "none", runs |-> << BuildRun("completed", "success") >>, statuses |-> << >>],
    [failAt |-> "none", runs |-> << BuildRun("in_progress", NULL) >>, statuses |-> << >>],
    [failAt |-> "none", runs |-> << BuildRun("completed", "failure") >>, statuses |-> << >>],
    [failAt |-> "none", runs |-> << BuildRun("completed", "success") >>,
     statuses |-> << SlackStatus("failure") >>],
    [failAt |-> "none", runs |-> << BuildRun("completed", "failure") >>,
     statuses |-> << SlackStatus("failure") >>] }

QueueEntry(state, position) ==
  [prOk |-> TRUE, merged |-> FALSE, gqlOk |-> TRUE, hasEntry |-> TRUE,
   state |-> state, position |-> position]

QueueSnapshots ==
  { [prOk |-> FALSE, merged |-> FALSE, gqlOk |-> FALSE, hasEntry |-> FALSE,
     state |-> NULL, position |-> NoPosition],
    [prOk |-> TRUE, merged |-> TRUE, gqlOk |-> TRUE, hasEntry |-> FALSE,
     state |-> NULL, position |-> NoPosition],
    [prOk |-> TRUE, merged |-> FALSE, gqlOk |-> FALSE, hasEntry |-> FALSE,
     state |-> NULL, position |-> NoPosition],
    [prOk |-> TRUE, merged |-> FALSE, gqlOk |-> TRUE, hasEntry |-> FALSE,
     state |-> NULL, position |-> NoPosition],
    QueueEntry("QUEUED", 1),
    QueueEntry("AWAITING_CHECKS", 2),
    QueueEntry("AWAITING_CHECKS", 0),
    QueueEntry("MERGEABLE", 0),
    QueueEntry("UNMERGEABLE", 0),
    QueueEntry("LOCKED", 1) }

\* What the fetchers return on these answers.
ReviewResults == { GetCursorbotComments(rv) : rv \in ReviewSnapshots }
CommentResults == { GetPRIssueComments(cm) : cm \in CommentSnapshots }
FailureResults == { GetCIFailures(ci) : ci \in CISnapshots }
CIStatusResults == { CheckCIStatus(ci) : ci \in CISnapshots }
QueueResults == { CheckMergeQueueStatus(raw) : raw \in QueueSnapshots }

\* The answers drawn when polls may overlap: a review comment and a general
\* comment, each there or not, a non-blocking CI failure, there or not, CI red or green,
\* the PR out of the queue or in it.
CoreReviewResults ==
  { GetCursorbotComments([graphql |-> [ok |-> TRUE, threads |-> ts], rest |-> NoREST]) :
      ts \in { << >>, << BotThread(FALSE, FALSE) >> } }
CoreCommentResults ==
  { GetPRIssueComments([ok |-> TRUE, comments |-> cs]) :
      cs \in { << >>, << [id |-> 1, login |-> CursorLogin] >> } }
CoreFailureResults ==
  { GetCIFailures([failAt |-> "none", runs |-> << BuildRun("completed", "success") >>,
                   statuses |-> st]) :
      st \in { << >>, << SlackStatus("failure") >> } }
CoreCIStatusResults ==
  { CheckCIStatus([failAt |-> "none", runs |-> << BuildRun("completed", c) >>,
                   statuses |-> << >>]) :
      c \in { "success", "failure" } }
CoreQueueResults ==
  { CheckMergeQueueStatus(raw) :
      raw \in { [prOk |-> TRUE, merged |-> FALSE, gqlOk |-> TRUE, hasEntry |-> FALSE,
                 state |-> NULL, position |-> NoPosition],
                QueueEntry("QUEUED", 1) } }

\* What getCursorbotComments returns while the platform holds one unresolved
\* review thread opened by Cursor: the GraphQL request answers, or it throws
\* and the REST request answers, or both throw.
OutageReviewResults ==
  { GetCursorbotComments(rv) :
      rv \in { [graphql |-> [ok |-> TRUE, threads |-> << BotThread(FALSE, FALSE) >>],
                rest |-> NoREST],
               [graphql |-> NoGraphQL,
                rest |-> [ok |-> TRUE,
                          comments |-> << [id |-> 1, login |-> CursorLogin,
                                           position |-> 3, original_position |-> 3] >>]],
               [graphql |-> NoGraphQL, rest |-> NoREST] } }

InQueueStates == {"QUEUED", "AWAITING_CHECKS", "MERGEABLE", "UNMERGEABLE", "LOCKED"}

\* ------------------------------------------------------------------ state
VARIABLES
  seenIssueIds,                 \* let seenIssueIds = new Set()
  previouslyHadBlockingIssues,  \* blocking issues on the last completed poll
  notifiedReadyToMerge,         \* ready-to-merge already announced
  lastMergeQueueState,          \* queue state recorded by the last completed poll
  polls,                        \* the suspended activations of pollForIssues
  mainPc,                       \* position of main(): "start", "initialPoll", "interval"
  exited,                       \* process.exit(0) was called
  \* history, for stating the properties
  pollNo,                       \* number of polls started so far
  readyAt,                      \* numbers of the polls that sent ready-to-merge
  everBlocking,                 \* some poll has fetched a blocking issue
  hadTrouble,                   \* some completed poll had a blocking issue or failed CI
  everActive,                   \* ids in the active list of some completed poll
  scenario,                     \* how many completed polls match the sequence of P6
  lastAllGreen,                 \* allGreen of the CI aggregate of the poll that returned last
  queueScenario,                \* how many polls match the queue sequence of Scenario C
  queueNotes,                   \* << poll, notification >> sent by the polls of that sequence
  readySinceNew,                \* ready-to-merge was sent and no poll found a new blocking issue since
  \* a fetcher applied on its own
  call,                         \* the application under way: function, argument, result
  earlier,                      \* a completed application of the same function
  \* the MCP server of index.js
  mcp                           \* watchedPR, handledIssueIds, and the request under way

vars == << seenIssueIds, previouslyHadBlockingIssues, notifiedReadyToMerge,
           lastMergeQueueState, polls, mainPc, exited,
           pollNo, readyAt, everBlocking, hadTrouble, everActive, scenario, lastAllGreen,
                  queueScenario, queueNotes, readySinceNew, call, earlier, mcp >>

\* One activation of pollForIssues: its position and its local constants.
\* pc names the await the activation is suspended at.
\* No fetcher is being applied on its own.
NoCall == [fn |-> "none", arg |-> << >>, ret |-> << >>, done |-> FALSE]

IdlePoll ==
  [pc |-> "idle", idx |-> 0,
   allIssues |-> << >>, newIssues |-> << >>,
   mergeQueueStatus |-> EmptyQueueStatus,
   hasBlockingIssues |-> FALSE,
   ciStatus |-> EmptyCIStatus,
   currentQueueState |-> NULL,
   sent |-> << >>,          \* argument of the pending sendNotification call
   queueNote |-> "none"]    \* first argument of the pending sendMergeQueueNotification call

\* let watchedPR = null
NoPR == [owner |-> NULL, repo |-> NULL, number |-> NoPosition]

\* No tool call has been answered yet.
NoResponse == [kind |-> "none", allIssues |-> << >>, issues |-> << >>]

\* The module state of index.js when the server starts, and no request under
\* way. marked is history: the ids given to mark_issue_handled since the
\* handled set was last emptied; so is watched: some watch_pr call has
\* returned without error.
McpStart ==
  [watchedPR |-> NoPR, handledIssueIds |-> {},
   pc |-> "idle", includeHandled |-> FALSE,
   response |-> NoResponse,
   marked |-> {},
   watched |-> FALSE]

InitState ==
  /\ mcp = McpStart
  /\ seenIssueIds = {}
  /\ previouslyHadBlockingIssues = FALSE
  /\ notifiedReadyToMerge = FALSE
  /\ lastMergeQueueState = NULL
  /\ polls = [p \in Slots |-> IdlePoll]
  /\ mainPc = "start"
  /\ exited = FALSE
  /\ pollNo = 0
  /\ readyAt = {}
  /\ everBlocking = FALSE
  /\ hadTrouble = FALSE
  /\ everActive = {}
  /\ scenario = 0
  /\ lastAllGreen = FALSE
  /\ queueScenario = 0
  /\ queueNotes = {}
  /\ readySinceNew = FALSE

Init == InitState /\ call = NoCall /\ earlier = NoCall

\* ------------------------------------------------- pieces of pollForIssues
\* Variant: nothing is new while the seen set is still empty.
NewIssuesOf_SuppressFirst(allIssues, seen) ==
  LET IsNew(i) == i.id \notin seen
  IN IF seen = {} THEN << >> ELSE SelectSeq(allIssues, IsNew)

\* const newIssues = allIssues.filter(i => !seenIssueIds.has(i.id))
NewIssuesOf(allIssues, seen) ==
  LET IsNew(i) == i.id \notin seen IN SelectSeq(allIssues, IsNew)

\* Variant: the filter on nonBlocking is missing.
BlockingOf_All(issues) == issues

\* issues.filter(i => !i.nonBlocking)
BlockingOf(issues) ==
  LET IsBlocking(i) == ~i.nonBlocking IN SelectSeq(issues, IsBlocking)

\* Variant: the seen set is replaced by the ids of this poll.
AddSeen_Replace(seen, allIssues) == Ids(allIssues)

\* Variant: only the first issue of the list is recorded.
AddSeen_FirstOnly(seen, allIssues) ==
  IF allIssues = << >> THEN seen ELSE seen \cup { allIssues[1].id }

\* for (const issue of allIssues) seenIssueIds.add(issue.id)
AddSeen(seen, allIssues) == seen \cup Ids(allIssues)

CurrentQueueState(mq) ==
  IF mq.merged THEN "MERGED" ELSE IF mq.inQueue THEN mq.state ELSE NULL

\* ------------------------------------------- inputs of a single fetcher
RECURSIVE SeqsUpTo(_, _)
SeqsUpTo(S, n) ==
  IF n = 0 THEN { << >> }
  ELSE LET shorter == SeqsUpTo(S, n - 1)
       IN shorter \cup { Append(q, x) : q \in shorter, x \in S }

\* Check runs and commit statuses as the platform lists them.
RunKinds ==
  { BuildRun("in_progress", NULL), BuildRun("completed", "success"),
    BuildRun("completed", "failure"),
    [BuildRun("completed", "failure") EXCEPT !.name = SlackName] }
StatusKinds ==
  { [SlackStatus("pending") EXCEPT !.context = BuildName],
    [SlackStatus("success") EXCEPT !.context = BuildName],
    [SlackStatus("failure") EXCEPT !.context = BuildName],
    SlackStatus("failure") }

\* failAt "checks": checks.listForRef throws; "statuses":
\* repos.getCombinedStatusForRef throws.
CIInputs ==
  { [failAt |-> f, runs |-> r, statuses |-> st] :
      f \in {"none", "checks", "statuses"},
      r \in SeqsUpTo(RunKinds, MaxBatch),
      st \in SeqsUpTo(StatusKinds, MaxBatch) }

\* The same CI results with one more failed non-blocking check: a check run
\* listed first or last, or a commit status.
WithNonBlockingFailure(raw, where) ==
  LET run == [BuildRun("completed", "failure") EXCEPT !.name = SlackName]
  IN IF where = "firstRun" THEN [raw EXCEPT !.runs = << run >> \o @]
     ELSE IF where = "lastRun" THEN [raw EXCEPT !.runs = Append(@, run)]
     ELSE [raw EXCEPT !.statuses = Append(@, SlackStatus("failure"))]

\* Review threads as they stand on the platform.  line says where the
\* comments of the thread sit: "current" (position and original position
\* set), "outdated" (position null, original position set: the thread is
\* outdated), "file" (both null).  The comments of the k-th thread are
\* numbered 2k-1, 2k.
ThreadKinds ==
  { [isResolved |-> r, line |-> l, logins |-> a] :
      r \in BOOLEAN, l \in {"current", "outdated", "file"},
      a \in { << CursorLogin >>, << CursorLogin, HumanLogin >>, << HumanLogin >> } }

ReviewInputs ==
  { [threads |-> ts, graphqlOk |-> g, restOk |-> r] :
      ts \in SeqsUpTo(ThreadKinds, MaxBatch),
      g \in BOOLEAN, r \in BOOLEAN }

CommentNumber(k, j) == 2 * (k - 1) + j

\* What the GraphQL request of getCursorbotComments answers.
GraphQLView(ts) ==
  [k \in 1..Len(ts) |->
     [isResolved |-> ts[k].isResolved,
      isOutdated |-> ts[k].line = "outdated",
      comments |-> [j \in 1..Len(ts[k].logins) |->
                      [databaseId |-> CommentNumber(k, j), login |-> ts[k].logins[j]]]]]

\* What pulls.listReviewComments answers: the comments, thread after thread.
RECURSIVE RESTViewFrom(_, _)
RESTViewFrom(ts, k) ==
  IF k > Len(ts) THEN << >>
  ELSE [j \in 1..Len(ts[k].logins) |->
          [id |-> CommentNumber(k, j), login |-> ts[k].logins[j],
           position |-> IF ts[k].line = "current" THEN 3 ELSE NoPosition,
           original_position |-> IF ts[k].line = "file" THEN NoPosition ELSE 3]]
       \o RESTViewFrom(ts, k + 1)

RESTView(ts) == RESTViewFrom(ts, 1)

ReviewRaw(input) ==
  [graphql |-> [ok |-> input.graphqlOk, threads |-> GraphQLView(input.threads)],
   rest |-> [ok |-> input.restOk, comments |-> RESTView(input.threads)]]

\* Check runs and commit statuses of which some report the same job: a
\* status may carry the URL of a run, or its name in another case.  The k-th
\* run and the k-th status of an answer are numbered k.
BuildUpperName == <<"B","U","I","L","D">>
LintName == <<"l","i","n","t">>

FailureRunKinds ==
  { BuildRun("completed", "failure"), BuildRun("completed", "success"),
    [BuildRun("completed", "failure") EXCEPT !.name = SlackName, !.url = "u2"] }
FailureStatusKinds ==
  { [SlackStatus("failure") EXCEPT !.context = BuildUpperName, !.target_url = "u3"],
    [SlackStatus("success") EXCEPT !.context = BuildUpperName, !.target_url = "u3"],
    [SlackStatus("failure") EXCEPT !.context = LintName, !.target_url = "u1"],
    [SlackStatus("failure") EXCEPT !.context = LintName, !.target_url = "u3"],
    [SlackStatus("error") EXCEPT !.context = LintName, !.target_url = "u4"] }

Numbered(records) == [k \in 1..Len(records) |-> [records[k] EXCEPT !.id = k]]

CIFailureInputs ==
  { [failAt |-> "none", runs |-> Numbered(r), statuses |-> Numbered(st)] :
      r \in SeqsUpTo(FailureRunKinds, MaxBatch),
      st \in SeqsUpTo(FailureStatusKinds, MaxBatch) }

\* Job names, and values of NON_BLOCKING_CI with the entries they are meant
\* to configure.
JobNames ==
  { NoName, << >>, BuildName, SlackName, LintName, BuildUpperName,
    <<"E","2","E"," ","t","e","s","t","s">>,
    <<"c","i","/","C","o","d","e","C","o","v">>,
    <<"L","i","n","t","-","j","s">> }

EnvInputs ==
  { [value |-> NoName, entries |-> {}],
    [value |-> << >>, entries |-> {}],
    [value |-> <<"L","i","n","t">>, entries |-> { LintName }],
    [value |-> <<" ","l","i","n","t"," ",","," ","E","2","E"," ","t","e","s","t">>,
     entries |-> { LintName, <<"e","2","e"," ","t","e","s","t">> }],
    [value |-> <<"b","u","i","l","d",",","l","i","n","t","-","j","s">>,
     entries |-> { BuildName, <<"l","i","n","t","-","j","s">> }] }

\* The numbers of a review comment of Cursor, a general comment of Cursor, a
\* failed check run and a failed commit status on the platform.
NumberInputs ==
  [review : 0..MaxNumber, comment : 0..MaxNumber, run : 0..MaxNumber, status : 0..MaxNumber]

\* Variant: leaving the queue is not reported.
QueueNotification_NoRemoved(last, current) ==
  IF last # current /\ last # NULL
  THEN IF current = "MERGED" THEN "MERGED"
       ELSE IF ~TruthyStr(last) /\ TruthyStr(current) THEN "QUEUED"
       ELSE "none"
  ELSE "none"

\* Variant: the two states are not compared.
QueueNotification_NoComparison(last, current) ==
  IF last # NULL
  THEN IF current = "MERGED" THEN "MERGED"
       ELSE IF TruthyStr(last) /\ ~TruthyStr(current) THEN "REMOVED"
       ELSE IF ~TruthyStr(last) /\ TruthyStr(current) THEN "QUEUED"
       ELSE "none"
  ELSE "none"

\* Which merge-queue notification, if any, the state change calls for.
QueueNotification(last, current) ==
  IF last # current /\ last # NULL
  THEN IF current = "MERGED" THEN "MERGED"
       ELSE IF TruthyStr(last) /\ ~TruthyStr(current) THEN "REMOVED"
       ELSE IF ~TruthyStr(last) /\ TruthyStr(current) THEN "QUEUED"
       ELSE "none"
  ELSE "none"

\* Variants: the flag test inverted; the CI aggregate not consulted; the
\* blocking issues not consulted.
ReadyApplicable_FlagInverted(hasBlockingIssues, ciStatus, notified) ==
  ~hasBlockingIssues /\ ciStatus.allGreen /\ notified

ReadyApplicable_IgnoresCI(hasBlockingIssues, ciStatus, notified) ==
  ~hasBlockingIssues /\ ~notified

ReadyApplicable_IgnoresIssues(hasBlockingIssues, ciStatus, notified) ==
  ciStatus.allGreen /\ ~notified

\* Variant: the flag is not consulted.
ReadyApplicable_IgnoresFlag(hasBlockingIssues, ciStatus, notified) ==
  ~hasBlockingIssues /\ ciStatus.allGreen

\* if (!hasBlockingIssues && ciStatus.allGreen && !notifiedReadyToMerge)
ReadyApplicable(hasBlockingIssues, ciStatus, notified) ==
  ~hasBlockingIssues /\ ciStatus.allGreen /\ ~notified

\* Progress of the first completed polls along the sequence
\* [blocking issue, CI red], [clean, green], [clean, green]; -1 once they differ.
ScenarioStep(s, rec) ==
  IF s = 0 /\ rec.idx = 1 /\ rec.hasBlockingIssues /\ rec.ciStatus.failed > 0 THEN 1
  ELSE IF s \in {1, 2} /\ ~rec.hasBlockingIssues /\ rec.ciStatus.allGreen THEN s + 1
  ELSE IF s = 3 THEN 3
  ELSE -1

\* Whether the queue status fetched by poll k is the k-th of the sequence
\* AWAITING_CHECKS at 2, AWAITING_CHECKS at 0, MERGEABLE at 0, merged.
QueueScenarioMatches(k, mq) ==
  IF k = 4 THEN mq.merged
  ELSE /\ ~mq.merged
       /\ mq.inQueue
       /\ mq.state = (IF k = 3 THEN "MERGEABLE" ELSE "AWAITING_CHECKS")
       /\ mq.position = (IF k = 1 THEN 2 ELSE 0)

\* Progress of the first four polls along that sequence, with the queue
\* notifications they send; -1 once they differ.
QueueScenarioStep(g, rec, note) ==
  IF g.queueScenario = 4 THEN g
  ELSE IF /\ g.queueScenario = rec.idx - 1
          /\ rec.idx \in 1..4
          /\ QueueScenarioMatches(rec.idx, rec.mergeQueueStatus)
       THEN [g EXCEPT !.queueScenario = rec.idx,
                      !.queueNotes = IF note = "none" THEN @
                                     ELSE @ \cup { << rec.idx, note >> }]
       ELSE [g EXCEPT !.queueScenario = -1, !.queueNotes = {}]

\* The retained state as one record, so that the straight-line pieces of
\* pollForIssues between two awaits can be composed.
\* track says whether the history of completed polls is recorded: it is
\* when polls are serialized, where "the previous poll" is defined.
Globals(track) ==
  [track |-> track, seen |-> seenIssueIds, prev |-> previouslyHadBlockingIssues,
   flag |-> notifiedReadyToMerge, last |-> lastMergeQueueState,
   mainPc |-> mainPc, readyAt |-> readyAt, everBlocking |-> everBlocking,
   hadTrouble |-> hadTrouble, everActive |-> everActive, scenario |-> scenario,
   lastAllGreen |-> lastAllGreen,
   queueScenario |-> queueScenario, queueNotes |-> queueNotes,
   readySinceNew |-> readySinceNew]

\* The tail of pollForIssues: record the queue state and the blocking flag,
\* return.  main() awaits the first poll and then starts the timer.
FinishSection(g, rec) ==
  LET g1 == [g EXCEPT !.last = rec.currentQueueState,
                      !.prev = rec.hasBlockingIssues,
                      !.mainPc = IF rec.idx = 1 THEN "interval" ELSE @]
  IN [g |-> IF g.track
            THEN [g1 EXCEPT !.hadTrouble = @ \/ rec.hasBlockingIssues \/ rec.ciStatus.failed > 0,
                            !.everActive = @ \cup Ids(rec.allIssues),
                            !.scenario = ScenarioStep(@, rec),
                            !.lastAllGreen = rec.ciStatus.allGreen]
            ELSE g1,
      rec |-> IdlePoll]

\* Variant: the notification does not depend on previouslyHadBlockingIssues.
ReadySection_NoPrevCheck(g, rec) ==
  IF ReadyApplicable(rec.hasBlockingIssues, rec.ciStatus, g.flag)
  THEN [g |-> [g EXCEPT !.readyAt = IF g.track THEN @ \cup {rec.idx} ELSE @,
                         !.readySinceNew = g.track],
        rec |-> [rec EXCEPT !.pc = "rnotify"]]
  ELSE FinishSection(g, rec)

\* "Send ready notification if applicable"
ReadySection(g, rec) ==
  IF ReadyApplicable(rec.hasBlockingIssues, rec.ciStatus, g.flag)
  THEN IF g.prev
       THEN [g |-> [g EXCEPT !.readyAt = IF g.track THEN @ \cup {rec.idx} ELSE @,
                         !.readySinceNew = g.track],
             rec |-> [rec EXCEPT !.pc = "rnotify"]]
       ELSE FinishSection([g EXCEPT !.flag = TRUE], rec)
  ELSE FinishSection(g, rec)

\* After checkCIStatus returned: "Check for merge queue state changes and
\* send notifications"
QueueSection(g, rec0, ci) ==
  LET rec == [rec0 EXCEPT !.ciStatus = ci,
                          !.currentQueueState = CurrentQueueState(rec0.mergeQueueStatus)]
      note == QueueNotification(g.last, rec.currentQueueState)
      g1 == IF g.track THEN QueueScenarioStep(g, rec, note) ELSE g
  IN IF note # "none"
     THEN [g |-> g1, rec |-> [rec EXCEPT !.pc = "qnotify", !.queueNote = note]]
     ELSE ReadySection(g1, rec)

\* Display of the active issues, "Update seen issues", the blocking count,
\* and the call of checkCIStatus.
SeenSection(g, rec) ==
  [g |-> [g EXCEPT !.seen = AddSeen(@, rec.allIssues)],
   rec |-> [rec EXCEPT !.pc = "ci",
                       !.hasBlockingIssues = BlockingOf(rec.allIssues) # << >>]]

\* After checkMergeQueueStatus returned: "Show new issues notification"
NotifySection(g, rec0, mq) ==
  LET rec == [rec0 EXCEPT !.mergeQueueStatus = mq]
      newBlockingIssues == BlockingOf(rec.newIssues)
  IN IF newBlockingIssues # << >>
     THEN [g |-> [g EXCEPT !.readySinceNew = FALSE],
           rec |-> [rec EXCEPT !.pc = "notify", !.sent = newBlockingIssues]]
     ELSE SeenSection(g, rec)

Apply(out, p) ==
  /\ seenIssueIds' = out.g.seen
  /\ previouslyHadBlockingIssues' = out.g.prev
  /\ notifiedReadyToMerge' = out.g.flag
  /\ lastMergeQueueState' = out.g.last
  /\ mainPc' = out.g.mainPc
  /\ readyAt' = out.g.readyAt
  /\ everBlocking' = out.g.everBlocking
  /\ hadTrouble' = out.g.hadTrouble
  /\ everActive' = out.g.everActive
  /\ scenario' = out.g.scenario
  /\ lastAllGreen' = out.g.lastAllGreen
  /\ queueScenario' = out.g.queueScenario
  /\ readySinceNew' = out.g.readySinceNew
  /\ queueNotes' = out.g.queueNotes
  /\ polls' = [polls EXCEPT ![p] = out.rec]
  /\ UNCHANGED << exited, pollNo, call, earlier, mcp >>

\* ---------------------------------------------------------------- actions
InFlight == { p \in Slots : polls[p].pc # "idle" }

\* A call of pollForIssues: it runs up to its first await, the Promise.all
\* over the three fetchers.
StartPoll(maxPolls) ==
  /\ ~exited
  /\ pollNo < maxPolls
  /\ \E p \in Slots :
       /\ polls[p].pc = "idle"
       /\ \A q \in Slots : polls[q].pc = "idle" => p <= q
       /\ polls' = [polls EXCEPT ![p] = [IdlePoll EXCEPT !.pc = "fetch", !.idx = pollNo + 1]]
  /\ pollNo' = pollNo + 1

\* main(): setupKeyboardShortcuts(); await pollForIssues()
MainStart ==
  /\ mainPc = "start"
  /\ StartPoll(MaxPolls)
  /\ mainPc' = "initialPoll"
  /\ UNCHANGED << seenIssueIds, previouslyHadBlockingIssues, notifiedReadyToMerge,
                  lastMergeQueueState, exited, readyAt, everBlocking, hadTrouble,
                  everActive, scenario, lastAllGreen,
                  queueScenario, queueNotes, readySinceNew, call, earlier, mcp >>

\* setInterval(pollForIssues, POLL_INTERVAL_MS): the timer calls
\* pollForIssues whatever the state of the previous call.
TimerTick(maxPolls) ==
  /\ mainPc = "interval"
  /\ StartPoll(maxPolls)
  /\ UNCHANGED << seenIssueIds, previouslyHadBlockingIssues, notifiedReadyToMerge,
                  lastMergeQueueState, mainPc, exited, readyAt, everBlocking,
                  hadTrouble, everActive, scenario, lastAllGreen,
                  queueScenario, queueNotes, readySinceNew, call, earlier, mcp >>

\* keypress 'r': await pollForIssues()
KeyRefresh(maxPolls) ==
  /\ mainPc # "start"
  /\ StartPoll(maxPolls)
  /\ UNCHANGED << seenIssueIds, previouslyHadBlockingIssues, notifiedReadyToMerge,
                  lastMergeQueueState, mainPc, exited, readyAt, everBlocking,
                  hadTrouble, everActive, scenario, lastAllGreen,
                  queueScenario, queueNotes, readySinceNew, call, earlier, mcp >>

\* keypress 'q' or Ctrl+C: process.exit(0)
KeyQuit ==
  /\ mainPc # "start"
  /\ ~exited
  /\ exited' = TRUE
  /\ UNCHANGED << seenIssueIds, previouslyHadBlockingIssues, notifiedReadyToMerge,
                  lastMergeQueueState, polls, mainPc, pollNo, readyAt, everBlocking,
                  hadTrouble, everActive, scenario, lastAllGreen,
                  queueScenario, queueNotes, readySinceNew, call, earlier, mcp >>

\* The three fetchers returned: allIssues, newIssues, call of
\* checkMergeQueueStatus.
PollFetched(p, reviews, comments, failures) ==
  /\ ~exited
  /\ polls[p].pc = "fetch"
  /\ \E cursorbotIssues \in reviews, issueComments \in comments, ciIssues \in failures :
       LET allIssues == cursorbotIssues \o issueComments \o ciIssues
           rec == [polls[p] EXCEPT !.pc = "queue",
                                   !.allIssues = allIssues,
                                   !.newIssues = NewIssuesOf(allIssues, seenIssueIds)]
           g == [Globals(FALSE) EXCEPT !.everBlocking = @ \/ BlockingOf(allIssues) # << >>]
       IN Apply([g |-> g, rec |-> rec], p)

\* checkMergeQueueStatus returned.
PollQueueChecked(p, queues) ==
  /\ ~exited
  /\ polls[p].pc = "queue"
  /\ \E mergeQueueStatus \in queues :
       Apply(NotifySection(Globals(FALSE), polls[p], mergeQueueStatus), p)

\* sendNotification returned: notifiedReadyToMerge = false, and on.
PollNotified(p) ==
  /\ ~exited
  /\ polls[p].pc = "notify"
  /\ Apply(SeenSection([Globals(FALSE) EXCEPT !.flag = FALSE], polls[p]), p)

\* checkCIStatus returned.
PollCIChecked(p, statuses, track) ==
  /\ ~exited
  /\ polls[p].pc = "ci"
  /\ \E ciStatus \in statuses :
       Apply(QueueSection(Globals(track), polls[p], ciStatus), p)

\* sendMergeQueueNotification returned.
PollQueueNotified(p, track) ==
  /\ ~exited
  /\ polls[p].pc = "qnotify"
  /\ Apply(ReadySection(Globals(track), polls[p]), p)

\* sendReadyToMergeNotification returned: notifiedReadyToMerge = true, and on.
PollReadyNotified(p, track) ==
  /\ ~exited
  /\ polls[p].pc = "rnotify"
  /\ Apply(FinishSection([Globals(track) EXCEPT !.flag = TRUE], polls[p]), p)

PollStep ==
  \E p \in Slots :
    \/ PollFetched(p, CoreReviewResults, CoreCommentResults, CoreFailureResults)
    \/ PollQueueChecked(p, CoreQueueResults)
    \/ PollNotified(p)
    \/ PollCIChecked(p, CoreCIStatusResults, FALSE)
    \/ PollQueueNotified(p, FALSE)
    \/ PollReadyNotified(p, FALSE)

Next ==
  MainStart \/ TimerTick(MaxOverlapPolls) \/ KeyRefresh(MaxOverlapPolls) \/ PollStep

Spec == Init /\ [][Next]_vars

\* The same with the quit key.
NextQuit == Next \/ KeyQuit

QuitSpec == Init /\ [][NextQuit]_vars

\* The same program when every call of pollForIssues returns before the
\* next one is made (the timer period exceeds the duration of a poll and
\* no refresh is requested during a poll).
NoPollInFlight == InFlight = {}
TimerTickSerial == NoPollInFlight /\ TimerTick(MaxPolls)
KeyRefreshSerial == NoPollInFlight /\ KeyRefresh(MaxPolls)

PollStepSerial ==
  \E p \in Slots :
    \/ PollFetched(p, ReviewResults, CommentResults, FailureResults)
    \/ PollQueueChecked(p, QueueResults)
    \/ PollNotified(p)
    \/ PollCIChecked(p, CIStatusResults, TRUE)
    \/ PollQueueNotified(p, TRUE)
    \/ PollReadyNotified(p, TRUE)

NextSerial == MainStart \/ TimerTickSerial \/ KeyRefreshSerial \/ PollStepSerial

SerialSpec == Init /\ [][NextSerial]_vars

\* Serialized polls of a PR that holds an unresolved review comment of
\* Cursor from start to end, while requests to the platform may fail.
PollStepOutage ==
  \E p \in Slots :
    \/ PollFetched(p, OutageReviewResults, CoreCommentResults, CoreFailureResults)
    \/ PollQueueChecked(p, CoreQueueResults)
    \/ PollNotified(p)
    \/ PollCIChecked(p, CoreCIStatusResults, FALSE)
    \/ PollQueueNotified(p, FALSE)
    \/ PollReadyNotified(p, FALSE)

NextOutage == MainStart \/ TimerTickSerial \/ KeyRefreshSerial \/ PollStepOutage

OutageSpec == Init /\ [][NextOutage]_vars

\* What checkMergeQueueStatus returns while the PR is in the merge queue from
\* start to end: both requests answer, or the GraphQL request throws, or the
\* request for the PR throws.
QueueOutageResults ==
  { CheckMergeQueueStatus(raw) :
      raw \in { QueueEntry("QUEUED", 1),
                [QueueEntry("QUEUED", 1) EXCEPT !.gqlOk = FALSE],
                [QueueEntry("QUEUED", 1) EXCEPT !.prOk = FALSE] } }

\* Serialized polls of a PR that stays in the merge queue, while requests to
\* the platform may fail.
PollStepQueueOutage ==
  \E p \in Slots :
    \/ PollFetched(p, CoreReviewResults, CoreCommentResults, CoreFailureResults)
    \/ PollQueueChecked(p, QueueOutageResults)
    \/ PollNotified(p)
    \/ PollCIChecked(p, CoreCIStatusResults, FALSE)
    \/ PollQueueNotified(p, FALSE)
    \/ PollReadyNotified(p, FALSE)

NextQueueOutage == MainStart \/ TimerTickSerial \/ KeyRefreshSerial \/ PollStepQueueOutage

QueueOutageSpec == Init /\ [][NextQueueOutage]_vars

\* ---------------------------------------------- a fetcher applied on its own
\* The fetchers read nothing of the retained state: each is applied to what
\* the platform answers, and the state of the watcher stays as it is.
watcherVars == << seenIssueIds, previouslyHadBlockingIssues, notifiedReadyToMerge,
                  lastMergeQueueState, polls, mainPc, exited, pollNo, readyAt,
                  everBlocking, hadTrouble, everActive, scenario, lastAllGreen,
                  queueScenario, queueNotes, readySinceNew >>

\* A raw record that is not an object: reading a field of it throws.
NullRecord == [isNull |-> TRUE]

\* Position of the first such record of a list, 0 when there is none.
RECURSIVE NullAt(_, _)
NullAt(records, k) ==
  IF k > Len(records) THEN 0
  ELSE IF records[k] = NullRecord THEN k
  ELSE NullAt(records, k + 1)

InsertAt(records, k, r) == SubSeq(records, 1, k - 1) \o << r >> \o SubSeq(records, k, Len(records))

RemoveAt(records, k) == SubSeq(records, 1, k - 1) \o SubSeq(records, k + 1, Len(records))

\* getCIFailures on lists that may hold such a record.  Every statement that
\* reads a record is inside the one try block: the debug listing of the first
\* check (seenIssueIds empty) reads every record before the loop does, the
\* loop reads them in order, and the catch block returns what was pushed.
GetCIFailuresOfBatch(raw, firstCheck) ==
  LET kr == NullAt(raw.runs, 1)
      ks == NullAt(raw.statuses, 1)
  IN IF kr > 0
       THEN IF firstCheck THEN << >> ELSE FailedRuns(SubSeq(raw.runs, 1, kr - 1))
     ELSE IF ks > 0
       THEN IF firstCheck THEN FailedRuns(raw.runs)
            ELSE AddFailedStatuses(FailedRuns(raw.runs), SubSeq(raw.statuses, 1, ks - 1))
     ELSE GetCIFailures(raw)

\* Batches of failed runs and statuses with one record that is not an object.
BatchRunKinds ==
  { BuildRun("completed", "failure"),
    [BuildRun("completed", "failure") EXCEPT !.name = SlackName, !.url = "u2"] }
BatchStatusKinds ==
  { [SlackStatus("failure") EXCEPT !.context = LintName, !.target_url = "u3"],
    [SlackStatus("error") EXCEPT !.context = LintName, !.target_url = "u4"] }

BatchInputs ==
  { [raw |-> [failAt |-> "none",
              runs |-> IF l = "runs" /\ k <= Len(r) + 1
                       THEN InsertAt(Numbered(r), k, NullRecord) ELSE Numbered(r),
              statuses |-> IF l = "statuses" /\ k <= Len(st) + 1
                           THEN InsertAt(Numbered(st), k, NullRecord) ELSE Numbered(st)],
     firstCheck |-> f] :
      r \in SeqsUpTo(BatchRunKinds, MaxBatch),
      st \in SeqsUpTo(BatchStatusKinds, MaxBatch),
      l \in {"runs", "statuses"}, k \in 1..(MaxBatch + 1), f \in BOOLEAN }

\* Authors of comments: bots of the roster in some case, a person, nobody.
CodexLogin ==
  <<"c","h","a","t","g","p","t","-","c","o","d","e","x","-",
    "c","o","n","n","e","c","t","o","r","[","b","o","t","]">>
CodexUpperLogin == <<"C","o","d","e","x","-","B","o","t">>
CursorUpperLogin == <<"C","U","R","S","O","R">>
AuthorInputs == { CursorLogin, CursorUpperLogin, CodexLogin, CodexUpperLogin, HumanLogin, NoName }

\* What the two comment fetchers return when the author has written comment 1
\* in an open review thread and the general comment 2.
CommentsOfAuthor(login) ==
  [review |-> GetCursorbotComments(
                [graphql |-> [ok |-> TRUE,
                              threads |-> << [isResolved |-> FALSE, isOutdated |-> FALSE,
                                              comments |-> << [databaseId |-> 1,
                                                               login |-> login] >>] >>],
                 rest |-> NoREST]),
   general |-> GetPRIssueComments([ok |-> TRUE,
                                   comments |-> << [id |-> 2, login |-> login] >>])]

\* The human-friendly display state of checkMergeQueueStatus.  A text with
\* a count is kept as its template, the count and the plural mark; the ETA
\* appended to it as hours and minutes, -1 where there is none.
NoEta == [h |-> -1, m |-> -1]

Display(text, ahead) ==
  [text |-> text, ahead |-> ahead, plural |-> ahead > 1, eta |-> NoEta]

\* Variant: the waiting texts name one PR more than are ahead.
BaseDisplayState_OneMore(state, position) ==
  LET aheadCount == IF TruthyNum(position) THEN position ELSE 0
  IN IF state = "MERGEABLE" THEN Display("Ready to merge (at front of queue)", 0)
     ELSE IF aheadCount > 0 /\ state \in {"AWAITING_CHECKS", "QUEUED", "UNMERGEABLE"}
       THEN Display("Waiting (N ahead)", aheadCount + 1)
     ELSE Display(state, 0)

\* if (entry.state === 'MERGEABLE') ... else result.displayState = entry.state
BaseDisplayState(state, position) ==
  LET aheadCount == IF TruthyNum(position) THEN position ELSE 0
  IN CASE state = "MERGEABLE" -> Display("Ready to merge (at front of queue)", 0)
       [] state = "AWAITING_CHECKS" ->
            IF aheadCount > 0 THEN Display("Waiting (N PR ahead)", aheadCount)
            ELSE Display("Running checks (at front of queue)", 0)
       [] state = "QUEUED" ->
            IF aheadCount > 0 THEN Display("In queue (N PR ahead)", aheadCount)
            ELSE Display("In queue (next up)", 0)
       [] state = "UNMERGEABLE" ->
            IF aheadCount > 0 THEN Display("Waiting (N PR ahead)", aheadCount)
            ELSE Display("Cannot merge (check for conflicts)", 0)
       [] state = "LOCKED" -> Display("Queue is locked", 0)
       [] OTHER -> Display(state, 0)

\* "Add ETA if available": diffMs is estimatedTimeToMerge minus the time of
\* the poll, NoPosition when the entry has no estimate.
WithEta(display, diffMs) ==
  IF diffMs = NoPosition \/ diffMs <= 0 THEN display
  ELSE LET diffMins == (diffMs + 30000) \div 60000
       IN IF diffMins < 60 THEN [display EXCEPT !.eta = [h |-> -1, m |-> diffMins]]
          ELSE [display EXCEPT !.eta = [h |-> diffMins \div 60, m |-> diffMins % 60]]

DisplayState(entry) == WithEta(BaseDisplayState(entry.state, entry.position), entry.diffMs)

\* Entries of the merge queue: the known states and one the watcher does not
\* know, positions, and estimates (none, passed, 5 minutes, 90 minutes).
QueueEntryInputs ==
  [state : InQueueStates \cup {"FROZEN"},
   position : {NoPosition, 0, 1, 2},
   diffMs : {NoPosition, -60000, 300000, 5400000}]

\* What the platform holds when pollForIssues is called, which request
\* throws, and the retained state the call finds.
PollInputs ==
  [thread : BOOLEAN, comment : BOOLEAN, run : {"success", "failure"}, status : BOOLEAN,
   inQueue : BOOLEAN,
   failed : {"none", "reviews", "comments", "ciPr", "ciStatuses", "queue"},
   seen : { {}, {ReviewId(1)} }, prev : BOOLEAN, last : {NULL, "QUEUED"}]

NewCall(fn, arg) == [fn |-> fn, arg |-> arg, ret |-> << >>, done |-> FALSE]

FetcherInit ==
  /\ InitState
  /\ earlier = NoCall
  /\ call \in { NewCall("checkCIStatus", raw) : raw \in CIInputs }
              \cup { NewCall("getCursorbotComments", in) : in \in ReviewInputs }
              \cup { NewCall("fetchers", nums) : nums \in NumberInputs }
              \cup { NewCall("getCIFailures", raw) : raw \in CIFailureInputs }
              \cup { NewCall("isNonBlockingCI", [jobName |-> n, env |-> e]) :
                       n \in JobNames, e \in EnvInputs }
              \cup { NewCall("pollForIssues", in) : in \in PollInputs }
              \cup { NewCall("checkMergeQueueStatus", e) : e \in QueueEntryInputs }
              \cup { NewCall("comments", login) : login \in AuthorInputs }
              \cup { NewCall("getCIFailures.batch", in) : in \in BatchInputs }

ReturnCheckCIStatus ==
  /\ call.fn = "checkCIStatus"
  /\ ~call.done
  /\ call' = [call EXCEPT !.ret = CheckCIStatus(call.arg), !.done = TRUE]
  /\ UNCHANGED << earlier, watcherVars, mcp >>

\* checkCIStatus is called again when the platform lists one more failed
\* non-blocking check.
CallCheckCIStatusAgain ==
  /\ call.fn = "checkCIStatus"
  /\ call.done
  /\ earlier.fn = "none"
  /\ \E where \in {"firstRun", "lastRun", "status"} :
       call' = NewCall("checkCIStatus", WithNonBlockingFailure(call.arg, where))
  /\ earlier' = call
  /\ UNCHANGED << watcherVars, mcp >>

ReturnGetCursorbotComments ==
  /\ call.fn = "getCursorbotComments"
  /\ ~call.done
  /\ call' = [call EXCEPT !.ret = GetCursorbotComments(ReviewRaw(call.arg)), !.done = TRUE]
  /\ UNCHANGED << earlier, watcherVars, mcp >>

\* The Promise.all of pollForIssues over the three fetchers, and the list
\* allIssues made of their results.
ReturnFetchers ==
  /\ call.fn = "fetchers"
  /\ ~call.done
  /\ LET cursorbotIssues ==
           GetCursorbotComments(
             [graphql |-> [ok |-> TRUE,
                           threads |-> << [isResolved |-> FALSE, isOutdated |-> FALSE,
                                           comments |-> << [databaseId |-> call.arg.review,
                                                            login |-> CursorLogin] >>] >>],
              rest |-> NoREST])
         issueComments ==
           GetPRIssueComments([ok |-> TRUE,
                               comments |-> << [id |-> call.arg.comment, login |-> CursorLogin] >>])
         ciIssues ==
           GetCIFailures([failAt |-> "none",
                          runs |-> << [BuildRun("completed", "failure") EXCEPT !.id = call.arg.run] >>,
                          statuses |-> << [SlackStatus("failure") EXCEPT !.id = call.arg.status] >>])
     IN call' = [call EXCEPT !.ret = cursorbotIssues \o issueComments \o ciIssues,
                             !.done = TRUE]
  /\ UNCHANGED << earlier, watcherVars, mcp >>

\* The next poll calls getCursorbotComments on the same threads, and the
\* watcher has switched path: the GraphQL request now throws and the REST
\* request answers, or the GraphQL request answers again.
CallGetCursorbotCommentsAgain ==
  /\ call.fn = "getCursorbotComments"
  /\ call.done
  /\ earlier.fn = "none"
  /\ call.arg.graphqlOk \/ call.arg.restOk
  /\ call' = NewCall("getCursorbotComments",
                     [call.arg EXCEPT !.graphqlOk = ~@, !.restOk = TRUE])
  /\ earlier' = call
  /\ UNCHANGED << watcherVars, mcp >>

ReturnGetCIFailures ==
  /\ call.fn = "getCIFailures"
  /\ ~call.done
  /\ call' = [call EXCEPT !.ret = GetCIFailures(call.arg), !.done = TRUE]
  /\ UNCHANGED << earlier, watcherVars, mcp >>

ReturnIsNonBlockingCI ==
  /\ call.fn = "isNonBlockingCI"
  /\ ~call.done
  /\ call' = [call EXCEPT !.ret = IsNonBlockingCIWith(call.arg.jobName,
                                                     NonBlockingPatternsOf(call.arg.env.value)),
                          !.done = TRUE]
  /\ UNCHANGED << earlier, watcherVars, mcp >>

\* What each request of the poll is answered, or that it throws.
ReviewRawOf(in) ==
  IF in.failed = "reviews" THEN [graphql |-> NoGraphQL, rest |-> NoREST]
  ELSE [graphql |-> [ok |-> TRUE,
                     threads |-> IF in.thread THEN << BotThread(FALSE, FALSE) >> ELSE << >>],
        rest |-> NoREST]

CommentRawOf(in) ==
  [ok |-> in.failed # "comments",
   comments |-> IF in.comment THEN << [id |-> 3, login |-> CursorLogin] >> ELSE << >>]

CIRawOf(in) ==
  [failAt |-> CASE in.failed = "ciPr" -> "pr"
                [] in.failed = "ciStatuses" -> "statuses"
                [] OTHER -> "none",
   runs |-> << BuildRun("completed", in.run) >>,
   statuses |-> IF in.status THEN << SlackStatus("failure") >> ELSE << >>]

QueueRawOf(in) ==
  [prOk |-> in.failed # "queue", merged |-> FALSE, gqlOk |-> TRUE, hasEntry |-> in.inQueue,
   state |-> IF in.inQueue THEN "QUEUED" ELSE NULL,
   position |-> IF in.inQueue THEN 1 ELSE NoPosition]

\* One call of pollForIssues from its first line to its return, no other
\* call in between: the sections in the order of the code.
PollForIssues(g0, in) ==
  LET cursorbotIssues == GetCursorbotComments(ReviewRawOf(in))
      issueComments == GetPRIssueComments(CommentRawOf(in))
      ciIssues == GetCIFailures(CIRawOf(in))
      allIssues == cursorbotIssues \o issueComments \o ciIssues
      rec == [IdlePoll EXCEPT !.pc = "queue", !.idx = 1,
                              !.allIssues = allIssues,
                              !.newIssues = NewIssuesOf(allIssues, g0.seen)]
      o1 == NotifySection(g0, rec, CheckMergeQueueStatus(QueueRawOf(in)))
      o2 == IF o1.rec.pc = "notify"
            THEN SeenSection([o1.g EXCEPT !.flag = FALSE], o1.rec)
            ELSE o1
      o3 == QueueSection(o2.g, o2.rec,
                         CheckCIStatus([CIRawOf(in) EXCEPT !.failAt = "none"]))
      o4 == IF o3.rec.pc = "qnotify" THEN ReadySection(o3.g, o3.rec) ELSE o3
      o5 == IF o4.rec.pc = "rnotify"
            THEN FinishSection([o4.g EXCEPT !.flag = TRUE], o4.rec)
            ELSE o4
  IN [allIssues |-> allIssues, out |-> o5]

ReturnPollForIssues ==
  /\ call.fn = "pollForIssues"
  /\ ~call.done
  /\ call' = [call EXCEPT
                !.ret = PollForIssues([Globals(FALSE) EXCEPT !.seen = call.arg.seen,
                                                             !.prev = call.arg.prev,
                                                             !.last = call.arg.last],
                                      call.arg),
                !.done = TRUE]
  /\ UNCHANGED << earlier, watcherVars, mcp >>

ReturnGetCIFailuresOfBatch ==
  /\ call.fn = "getCIFailures.batch"
  /\ ~call.done
  /\ call' = [call EXCEPT !.ret = GetCIFailuresOfBatch(call.arg.raw, call.arg.firstCheck),
                          !.done = TRUE]
  /\ UNCHANGED << earlier, watcherVars, mcp >>

ReturnComments ==
  /\ call.fn = "comments"
  /\ ~call.done
  /\ call' = [call EXCEPT !.ret = CommentsOfAuthor(call.arg), !.done = TRUE]
  /\ UNCHANGED << earlier, watcherVars, mcp >>

\* checkMergeQueueStatus on a PR that is in the queue: the status that
\* pollForIssues reads, the queue state it tracks, and the display state.
ReturnCheckMergeQueueStatus ==
  /\ call.fn = "checkMergeQueueStatus"
  /\ ~call.done
  /\ LET status == CheckMergeQueueStatus(QueueEntry(call.arg.state, call.arg.position))
     IN call' = [call EXCEPT !.ret = [status |-> status,
                                      currentQueueState |-> CurrentQueueState(status),
                                      displayState |-> DisplayState(call.arg)],
                             !.done = TRUE]
  /\ UNCHANGED << earlier, watcherVars, mcp >>

\* The next poll finds the entry in the same state at the same position, and
\* another estimate.
CallCheckMergeQueueStatusAgain ==
  /\ call.fn = "checkMergeQueueStatus"
  /\ call.done
  /\ earlier.fn = "none"
  /\ \E d \in {NoPosition, -60000, 300000, 5400000} :
       call' = NewCall("checkMergeQueueStatus", [call.arg EXCEPT !.diffMs = d])
  /\ earlier' = call
  /\ UNCHANGED << watcherVars, mcp >>

FetcherNext ==
  \/ ReturnCheckMergeQueueStatus
  \/ CallCheckMergeQueueStatusAgain
  \/ ReturnComments
  \/ ReturnGetCIFailuresOfBatch
  \/ ReturnPollForIssues
  \/ ReturnIsNonBlockingCI
  \/ ReturnGetCIFailures
  \/ ReturnCheckCIStatus
  \/ CallCheckCIStatusAgain
  \/ ReturnGetCursorbotComments
  \/ CallGetCursorbotCommentsAgain
  \/ ReturnFetchers

FetcherSpec == FetcherInit /\ [][FetcherNext]_vars

\* ------------------------------------------------------------- properties
Blocking(issues) == { i \in SeqToSet(issues) : ~i.nonBlocking }

\* C1: with serialized polls, an issue whose id was in the active list of a
\* completed poll is never among the new issues of a later poll, nor in its
\* new-issues notification, also when it was absent in between.
C1_NoReannounce ==
  \A p \in Slots :
    /\ \A k \in 1..Len(polls[p].newIssues) : polls[p].newIssues[k].id \notin everActive
    /\ \A k \in 1..Len(polls[p].sent) : polls[p].sent[k].id \notin everActive

\* A blocking issue of an earlier poll, absent from the last completed poll,
\* is fetched again.
C1_Witness ==
  \E p \in Slots :
    /\ polls[p].pc = "queue"
    /\ ~previouslyHadBlockingIssues
    /\ \E i \in Blocking(polls[p].allIssues) : i.id \in everActive

C3Step(p) ==
  LET r == polls'[p]
      newBlocking == Blocking(polls[p].newIssues)
  IN r.idx > 1 =>
       /\ (polls[p].pc = "fetch" /\ r.pc = "queue")
            => SeqToSet(r.newIssues)
                 = { i \in SeqToSet(r.allIssues) : i.id \notin seenIssueIds }
       /\ (polls[p].pc = "queue" /\ r.pc # "queue")
            => /\ (r.pc = "notify") <=> (newBlocking # {})
               /\ SeqToSet(r.sent) = newBlocking
               /\ r.pc # "notify" => notifiedReadyToMerge' = notifiedReadyToMerge

C3_NewIssuesNotification == [][\A p \in Slots : C3Step(p)]_vars

\* A later poll announces a new blocking issue, next to a new non-blocking
\* one and an issue seen before.
C3_Witness ==
  \E p \in Slots :
    /\ polls[p].idx > 1
    /\ polls[p].pc = "notify"
    /\ Len(polls[p].sent) < Len(polls[p].newIssues)
    /\ Len(polls[p].newIssues) < Len(polls[p].allIssues)

\* C4: when the first three polls see [blocking issue, CI red], [clean,
\* green], [clean, green], ready-to-merge is sent by the second poll and by
\* neither the first nor the third.
C4_ReadyOnce ==
  /\ scenario \in {2, 3} => (2 \in readyAt /\ 1 \notin readyAt)
  /\ scenario = 3 => 3 \notin readyAt

C4_Witness == scenario = 3

\* C5, as claimed: a poll with no blocking issue and allGreen, that finds
\* notifiedReadyToMerge false after some earlier poll had a blocking issue or
\* failed CI, sends ready-to-merge (it does not return without sending it),
\* and the flag is true once it has.
C5_ReadyOnRecovery ==
  [][\A p \in Slots :
       /\ (/\ polls[p].pc \in {"ci", "qnotify"}
           /\ polls'[p].pc = "idle"
           /\ hadTrouble
           /\ ~notifiedReadyToMerge
           /\ ~polls[p].hasBlockingIssues)
            => ~lastAllGreen'
       /\ (polls[p].pc = "rnotify" /\ polls'[p].pc = "idle") => notifiedReadyToMerge'
    ]_vars

\* C6: a poll that sends ready-to-merge has no blocking issue in its active
\* list, and its CI aggregate is allGreen.
C6_ReadyOnlyWhenCleanAndGreen ==
  \A p \in Slots :
    polls[p].pc = "rnotify"
      => /\ Blocking(polls[p].allIssues) = {}
         /\ polls[p].ciStatus.allGreen

\* Ready-to-merge is sent while a non-blocking failure is in the active list.
C6_Witness ==
  \E p \in Slots : polls[p].pc = "rnotify" /\ polls[p].allIssues # << >>

\* C7: as long as no poll has fetched a blocking issue, no poll sends
\* ready-to-merge.
C7_NoReadyWhenAlwaysClean ==
  ~everBlocking => \A p \in Slots : polls[p].pc # "rnotify"

\* A poll of an always-clean PR saw green CI and set the flag without sending.
C7_Witness == ~everBlocking /\ notifiedReadyToMerge

\* C8: a poll that sends ready-to-merge has sent no new-issues notification.
C8_NotBoth ==
  \A p \in Slots : polls[p].pc = "rnotify" => polls[p].sent = << >>

\* A poll that has sent a new-issues notification reaches the ready test with
\* green CI, the flag false and blocking issues on the previous poll.
C8_Witness ==
  \E p \in Slots :
    /\ polls[p].pc = "qnotify"
    /\ polls[p].sent # << >>
    /\ polls[p].ciStatus.allGreen
    /\ ~notifiedReadyToMerge
    /\ previouslyHadBlockingIssues

\* C9, as claimed: at most one call of pollForIssues is in flight.
C9_NoOverlap == Cardinality(InFlight) <= 1

\* C10, as claimed: a poll that finds the PR in the queue, when an earlier
\* poll has recorded that it was not, sends the added-to-queue notification.
C10_AddedToQueue ==
  [][\A p \in Slots :
       (/\ polls[p].pc = "ci"
        /\ polls'[p].pc # "ci"
        /\ mainPc = "interval"
        /\ lastMergeQueueState = NULL
        /\ ~polls[p].mergeQueueStatus.merged
        /\ polls[p].mergeQueueStatus.inQueue
        /\ polls[p].mergeQueueStatus.state \in InQueueStates)
         => (polls'[p].pc = "qnotify" /\ polls'[p].queueNote = "QUEUED")
    ]_vars

\* C11, as claimed: a poll after the first that finds the PR merged, when the
\* recorded queue state is none or an in-queue state, sends the merged
\* notification (and so neither added-to-queue nor removed-from-queue).
C11_MergedNotification ==
  [][\A p \in Slots :
       (/\ polls[p].pc = "ci"
        /\ polls'[p].pc # "ci"
        /\ mainPc = "interval"
        /\ lastMergeQueueState \in InQueueStates \cup {NULL}
        /\ polls[p].mergeQueueStatus.merged)
         => (polls'[p].pc = "qnotify" /\ polls'[p].queueNote = "MERGED")
    ]_vars

\* C12: a poll that finds the PR neither merged nor in the queue, when the
\* recorded queue state is an in-queue state, sends the removed-from-queue
\* notification.
C12_RemovedFromQueue ==
  [][\A p \in Slots :
       (/\ polls[p].pc = "ci"
        /\ polls'[p].pc # "ci"
        /\ lastMergeQueueState \in InQueueStates
        /\ ~polls[p].mergeQueueStatus.merged
        /\ ~polls[p].mergeQueueStatus.inQueue)
         => (polls'[p].pc = "qnotify" /\ polls'[p].queueNote = "REMOVED")
    ]_vars

\* A poll is sending removed-from-queue after an in-queue state other than
\* QUEUED was recorded.
C12_Witness ==
  \E p \in Slots :
    /\ polls[p].pc = "qnotify"
    /\ polls[p].queueNote = "REMOVED"
    /\ lastMergeQueueState \in InQueueStates \ {"QUEUED"}

\* C14, as claimed: once MERGED is the recorded queue state, no poll sends
\* added-to-queue or removed-from-queue.
C14_MergedTerminal ==
  [][\A p \in Slots :
       (/\ polls[p].pc = "ci"
        /\ lastMergeQueueState = "MERGED"
        /\ polls'[p].pc = "qnotify")
         => polls'[p].queueNote \notin {"QUEUED", "REMOVED"}
    ]_vars

\* C13, as claimed: when the first four polls find the PR in the queue as
\* AWAITING_CHECKS at position 2, AWAITING_CHECKS at position 0, MERGEABLE at
\* position 0, and then merged, exactly one added-to-queue and exactly one
\* merged notification are sent, and polls 2 and 3 send none.
C13_ScenarioC ==
  queueScenario = 4
    => /\ Cardinality({ n \in queueNotes : n[2] = "QUEUED" }) = 1
       /\ Cardinality({ n \in queueNotes : n[2] = "MERGED" }) = 1
       /\ \A n \in queueNotes : n[1] \notin {2, 3}

\* C15, as claimed: while the PR holds an unresolved review comment of a bot,
\* no poll sends ready-to-merge, whether its fetch of the review comments
\* succeeded or failed.
C15_NoSpuriousReady ==
  \A p \in Slots : polls[p].pc # "rnotify"

C17_NonBlockingNeverAffects ==
  (call.fn = "checkCIStatus" /\ call.done /\ earlier.fn = "checkCIStatus")
    => call.ret.allGreen = earlier.ret.allGreen

\* Where each issue returned by getCursorbotComments comes from.
ThreadsOf(issue, ts) ==
  { k \in 1..Len(ts) :
      \E j \in 1..Len(ts[k].logins) : issue.id = ReviewId(CommentNumber(k, j)) }

\* C19, as claimed: no issue returned by getCursorbotComments is a comment of
\* a resolved or outdated thread.
C19_NoResolvedNoOutdated ==
  (call.fn = "getCursorbotComments" /\ call.done)
    => \A i \in 1..Len(call.ret) :
         \A k \in ThreadsOf(call.ret[i], call.arg.threads) :
           /\ ~call.arg.threads[k].isResolved
           /\ call.arg.threads[k].line # "outdated"

\* C19, amended: on the GraphQL path no issue is a comment of a resolved or
\* outdated thread; on the REST path no issue is a comment whose position is
\* null while its original position is not.
C19_PerPath ==
  (call.fn = "getCursorbotComments" /\ call.done)
    => \A i \in 1..Len(call.ret) :
         \A k \in ThreadsOf(call.ret[i], call.arg.threads) :
           /\ call.arg.threads[k].line # "outdated"
           /\ call.arg.graphqlOk => ~call.arg.threads[k].isResolved

\* The REST path returned a comment while another thread of Cursor is outdated.
C19_Witness ==
  /\ call.fn = "getCursorbotComments"
  /\ call.done
  /\ ~call.arg.graphqlOk
  /\ call.ret # << >>
  /\ \E k \in 1..Len(call.arg.threads) :
       /\ call.arg.threads[k].line = "outdated"
       /\ call.arg.threads[k].logins[1] = CursorLogin

\* C18: the seen set changes only where a poll records its active issues,
\* and becomes the union of what it was and the ids of that poll's active
\* issues; no step removes an id.  With serialized polls the set a poll
\* starts with is the set it finds at that step.
C18_SeenIsUnion ==
  [][seenIssueIds' =
       seenIssueIds \cup UNION { Ids(polls[p].allIssues) :
                                  p \in { q \in Slots : /\ polls[q].pc \in {"queue", "notify"}
                                                        /\ polls'[q].pc = "ci" } }
    ]_vars

\* A poll has recorded two active issues next to an id of an earlier poll
\* that is no longer active.
C18_Witness ==
  \E p \in Slots :
    /\ polls[p].pc = "ci"
    /\ Len(polls[p].allIssues) >= 2
    /\ Ids(polls[p].allIssues) \subseteq seenIssueIds
    /\ Ids(polls[p].allIssues) # seenIssueIds

\* C20: the issues made of a review comment, a general comment, a check run
\* and a commit status have pairwise different ids, whatever the numbers the
\* platform gave to the four records.
C20_NoCollision ==
  (call.fn = "fetchers" /\ call.done)
    => /\ Len(call.ret) = 4
       /\ \A i, j \in 1..Len(call.ret) : i # j => call.ret[i].id # call.ret[j].id

\* The four records carry the same two-digit number.
C20_Witness ==
  /\ call.fn = "fetchers"
  /\ call.done
  /\ Len(call.ret) = 4
  /\ call.arg.review >= 10
  /\ call.arg.comment = call.arg.review
  /\ call.arg.run = call.arg.review
  /\ call.arg.status = call.arg.review

\* C21: when getCursorbotComments is applied to the same threads through one
\* path and then through the other, a comment returned by both carries the
\* same id: the second result is new, against the ids of the first, only in
\* comments of resolved threads, which the GraphQL path never returned.
C21_SameIdOnBothPaths ==
  (call.fn = "getCursorbotComments" /\ call.done /\ earlier.fn = "getCursorbotComments")
    => LET again == NewIssuesOf(call.ret, Ids(earlier.ret))
       IN \A i \in 1..Len(again) :
            /\ ThreadsOf(again[i], call.arg.threads) # {}
            /\ \A k \in ThreadsOf(again[i], call.arg.threads) :
                 call.arg.threads[k].isResolved /\ ~call.arg.graphqlOk

\* The REST path returned two comments that the GraphQL path had returned.
C21_Witness ==
  /\ call.fn = "getCursorbotComments"
  /\ call.done
  /\ earlier.fn = "getCursorbotComments"
  /\ earlier.arg.graphqlOk
  /\ Len(call.ret) >= 2
  /\ Ids(call.ret) = Ids(earlier.ret)

\* Whether a check run is one of those getCIFailures reports.
FailedRun(run) == run.conclusion \in {"failure", "cancelled", "timed_out"}

\* C22: a failed commit status whose target URL is the URL of a failed check
\* run, or whose context is the name of a failed check run in whatever case,
\* gives no issue of its own; the run alone and such a status give one issue.
C22_StatusOfRunDeduplicated ==
  (call.fn = "getCIFailures" /\ call.done)
    => LET runs == call.arg.runs
           statuses == call.arg.statuses
           OfRun(s) == \E k \in 1..Len(runs) :
                          /\ FailedRun(runs[k])
                          /\ \/ runs[k].url = s.target_url
                             \/ ToLowerCase(runs[k].name) = ToLowerCase(s.context)
       IN /\ \A j \in 1..Len(statuses) :
               (statuses[j].state \in {"failure", "error"} /\ OfRun(statuses[j]))
                 => StatusId(statuses[j].id) \notin Ids(call.ret)
          /\ (Len(runs) = 1 /\ FailedRun(runs[1]) /\ \A j \in 1..Len(statuses) : OfRun(statuses[j]))
               => Len(call.ret) = 1

\* A failed run came with a status carrying its name in upper case and a
\* status carrying its URL, and one issue was returned.
C22_Witness ==
  /\ call.fn = "getCIFailures"
  /\ call.done
  /\ Len(call.arg.runs) = 1
  /\ Len(call.arg.statuses) = 2
  /\ call.arg.statuses[1].context = BuildUpperName
  /\ call.arg.statuses[1].state = "failure"
  /\ call.arg.statuses[2].target_url = call.arg.runs[1].url
  /\ Len(call.ret) = 1

\* C23: a job is blocking exactly when its name, in lower case, contains
\* none of the default patterns and none of the entries of NON_BLOCKING_CI;
\* a missing or empty name is blocking.
C23_Classifier ==
  (call.fn = "isNonBlockingCI" /\ call.done)
    => LET name == call.arg.jobName
           configured == SeqToSet(DEFAULT_NON_BLOCKING_CI) \cup call.arg.env.entries
       IN (~call.ret)
            <=> \/ name = NoName
                \/ name = << >>
                \/ \A pat \in configured : ~Includes(ToLowerCase(name), pat)

\* A name written in capitals matches an entry of NON_BLOCKING_CI given in
\* capitals too, between blanks.
C23_Witness ==
  /\ call.fn = "isNonBlockingCI"
  /\ call.done
  /\ call.ret
  /\ call.arg.jobName = <<"E","2","E"," ","t","e","s","t","s">>

\* C24, as claimed: the process stops only when no poll is under way: a poll
\* in flight when the quit key is pressed has run to its end, with all its
\* state updates, when the process has exited.
C24_QuitWaitsForPoll ==
  exited => \A p \in Slots : polls[p].pc = "idle"

\* ------------------------------------------------ the lookup of detail.js
\* /^\d+$/ on a sequence of characters
IsDigits(s) ==
  /\ Len(s) >= 1
  /\ \A k \in 1..Len(s) : \E d \in 1..Len(DigitChars) : s[k] = DigitChars[d]

\* issueId.match(/^prefix(\d+)$/)
MatchesId(id, prefix) ==
  /\ Len(id) > Len(prefix)
  /\ SubSeq(id, 1, Len(prefix)) = prefix
  /\ IsDigits(SubSeq(id, Len(prefix) + 1, Len(id)))

\* getIssueDetail goes on past "Invalid issue ID format."
ValidIssueIdFormat(id) ==
  \/ MatchesId(id, <<"r","e","v","i","e","w","-">>)
  \/ MatchesId(id, <<"i","s","s","u","e","-">>)
  \/ MatchesId(id, <<"c","i","-">>)

\* ------------------------------------------------- the MCP server, index.js
Undefined == "undefined"

\* a || b on strings that may be missing
OrElse(a, b) == IF a \in {Undefined, NULL} THEN b ELSE a

\* parsePRReference: a URL or owner/repo#number gives all three fields, a bare
\* number gives the number alone, anything else gives null.
ParsePRReference(pr) ==
  CASE pr.form \in {"url", "short"} ->
         [owner |-> pr.owner, repo |-> pr.repo, number |-> pr.number]
    [] pr.form = "number" ->
         [owner |-> Undefined, repo |-> Undefined, number |-> pr.number]
    [] OTHER -> NoPR

\* The arguments watch_pr is called with.
WatchArgs ==
  { [pr |-> [form |-> f, owner |-> "acme", repo |-> "app", number |-> 7],
     owner |-> o, repo |-> r] :
      f \in {"url", "short", "number", "other"},
      o \in {Undefined, "acme"}, r \in {Undefined, "app"} }

\* The issues the platform can report for the watched PR.
McpReviewIssue(n) == [id |-> ReviewId(n), type |-> "cursorbot"]
McpCIIssue(n) == [id |-> << "c", "i", "-" >> \o ToDigits(n), type |-> "ci"]

\* getAllIssues: the review issues followed by the CI issues.
GetAllIssues(cursorbotIssues, ciIssues) == cursorbotIssues \o ciIssues

McpFetches ==
  { GetAllIssues(c, s) : c \in { << >>, << McpReviewIssue(1) >> },
                         s \in { << >>, << McpCIIssue(1) >> } }

\* The ids a client can pass to mark_issue_handled: reported or not.
McpIssueIds == { ReviewId(1), McpCIIssue(1).id, ReviewId(2) }

\* Variant: check_for_issues returns every fetched issue.
UnhandledOf_All(allIssues, handled, includeHandled) == allIssues

\* const issues = includeHandled ? allIssues
\*                               : allIssues.filter(i => !handledIssueIds.has(i.id))
UnhandledOf(allIssues, handled, includeHandled) ==
  LET NotHandled(i) == i.id \notin handled
  IN IF includeHandled THEN allIssues ELSE SelectSeq(allIssues, NotHandled)

\* A response that lists no issue: an error, or the text of a handler that
\* fetches nothing.
McpError(kind) == [kind |-> kind, allIssues |-> << >>, issues |-> << >>]

\* case 'watch_pr', up to its await or its early return
WatchPr ==
  /\ mcp.pc = "idle"
  /\ \E args \in WatchArgs :
       LET parsed == ParsePRReference(args.pr)
           watched == [owner |-> OrElse(parsed.owner, args.owner),
                       repo |-> OrElse(parsed.repo, args.repo),
                       number |-> parsed.number]
       IN IF parsed = NoPR
            THEN mcp' = [mcp EXCEPT !.response = McpError("invalidReference")]
            ELSE IF watched.owner = Undefined \/ watched.repo = Undefined
              THEN mcp' = [mcp EXCEPT !.watchedPR = watched,
                                      !.response = McpError("noRepository")]
              ELSE mcp' = [mcp EXCEPT !.watchedPR = watched,
                                      !.handledIssueIds = {},
                                      !.marked = {},
                                      !.pc = "watch"]
  /\ UNCHANGED << watcherVars, call, earlier >>

\* watch_pr resumes after getAllIssues, which answers or throws
WatchPrReturn ==
  /\ mcp.pc = "watch"
  /\ \/ \E issues \in McpFetches :
          mcp' = [mcp EXCEPT !.pc = "idle",
                             !.watched = TRUE,
                             !.response = [kind |-> "watching", allIssues |-> issues,
                                           issues |-> issues]]
     \/ mcp' = [mcp EXCEPT !.pc = "idle", !.response = McpError("thrown")]
  /\ UNCHANGED << watcherVars, call, earlier >>

\* case 'check_for_issues', up to its await or its early return
CheckForIssues ==
  /\ mcp.pc = "idle"
  /\ \E include \in BOOLEAN :
       IF mcp.watchedPR = NoPR
         THEN mcp' = [mcp EXCEPT !.response = McpError("noPR")]
         ELSE mcp' = [mcp EXCEPT !.pc = "check", !.includeHandled = include]
  /\ UNCHANGED << watcherVars, call, earlier >>

\* check_for_issues resumes after getAllIssues, which answers or throws
CheckForIssuesReturn ==
  /\ mcp.pc = "check"
  /\ \/ \E allIssues \in McpFetches :
          LET issues == UnhandledOf(allIssues, mcp.handledIssueIds, mcp.includeHandled)
          IN mcp' = [mcp EXCEPT !.pc = "idle",
                                !.response = [kind |-> IF Len(issues) = 0 THEN "noIssues"
                                                                          ELSE "issues",
                                              allIssues |-> allIssues,
                                              issues |-> issues]]
     \/ mcp' = [mcp EXCEPT !.pc = "idle", !.response = McpError("thrown")]
  /\ UNCHANGED << watcherVars, call, earlier >>

\* case 'mark_issue_handled': it has no await, and the event loop can run it
\* while another request is suspended
MarkIssueHandled ==
  /\ \E id \in McpIssueIds :
       mcp' = [mcp EXCEPT !.handledIssueIds = @ \cup {id},
                          !.marked = @ \cup {id},
                          !.response = McpError("marked")]
  /\ UNCHANGED << watcherVars, call, earlier >>

\* case 'clear_handled'
ClearHandled ==
  /\ mcp' = [mcp EXCEPT !.handledIssueIds = {}, !.marked = {},
                         !.response = McpError("cleared")]
  /\ UNCHANGED << watcherVars, call, earlier >>

\* case 'get_issue_details', up to its await or its early return
GetIssueDetails ==
  /\ mcp.pc = "idle"
  /\ IF mcp.watchedPR = NoPR
       THEN mcp' = [mcp EXCEPT !.response = McpError("noPR")]
       ELSE mcp' = [mcp EXCEPT !.pc = "details"]
  /\ UNCHANGED << watcherVars, call, earlier >>

\* get_issue_details resumes after getAllIssues, which answers or throws
GetIssueDetailsReturn ==
  /\ mcp.pc = "details"
  /\ \/ \E allIssues \in McpFetches, id \in McpIssueIds :
          LET found == SelectSeq(allIssues, LAMBDA i : i.id = id)
          IN mcp' = [mcp EXCEPT !.pc = "idle",
                                !.response = IF found = << >>
                                             THEN McpError("notFound")
                                             ELSE [kind |-> "details",
                                                   allIssues |-> allIssues,
                                                   issues |-> << found[1] >>]]
     \/ mcp' = [mcp EXCEPT !.pc = "idle", !.response = McpError("thrown")]
  /\ UNCHANGED << watcherVars, call, earlier >>

McpNext ==
  \/ GetIssueDetails
  \/ GetIssueDetailsReturn
  \/ WatchPr
  \/ WatchPrReturn
  \/ CheckForIssues
  \/ CheckForIssuesReturn
  \/ MarkIssueHandled
  \/ ClearHandled

McpSpec == Init /\ [][McpNext]_vars

\* C25: check_for_issues without include_handled returns exactly the fetched
\* issues whose id was not given to mark_issue_handled since the last watch_pr
\* or clear_handled, in the order fetched.
C25_ReturnsUnhandled ==
  [][ (mcp.pc = "check" /\ mcp'.pc = "idle" /\ ~mcp.includeHandled
       /\ mcp'.response.kind \in {"issues", "noIssues"})
      => LET Unmarked(i) == i.id \notin mcp.marked
         IN mcp'.response.issues = SelectSeq(mcp'.response.allIssues, Unmarked) ]_vars

\* A check that leaves out a marked issue and returns the other one.
C25_Witness ==
  /\ mcp.response.kind = "issues"
  /\ ~mcp.includeHandled
  /\ Len(mcp.response.allIssues) = 2
  /\ Len(mcp.response.issues) = 1
  /\ mcp.response.issues[1].id \notin mcp.marked
  /\ mcp.response.allIssues[1].id \in mcp.marked

C27_NoEventWithoutTransition ==
  [][ /\ \A p \in Slots :
           (/\ polls[p].pc = "ci"
            /\ polls'[p].pc # "ci"
            /\ CurrentQueueState(polls[p].mergeQueueStatus) = lastMergeQueueState)
           => polls'[p].pc # "qnotify"
      /\ queueScenario' >= 2 => \A n \in queueNotes' : n[1] # 2 ]_vars

\* The second poll returned: same state as the first, another position.
C27_Witness ==
  /\ queueScenario = 2
  /\ pollNo = 2
  /\ InFlight = {}
  /\ lastMergeQueueState = "AWAITING_CHECKS"
  /\ queueNotes = {}

\* C28, as claimed: while the platform keeps the PR in the merge queue, no poll
\* sends removed-from-queue, whether its queries answer or fail.
C28_NoRemovedOnFailure ==
  \A p \in Slots : polls[p].pc = "qnotify" => polls[p].queueNote # "REMOVED"

\* C29, as claimed: when polls overlap, no blocking issue id is in the
\* new-issues notification of two polls.
C29_OneNotificationPerId ==
  \A p, q \in Slots :
    (p # q /\ polls[p].pc = "notify" /\ polls[q].pc = "notify")
    => Ids(polls[p].sent) \cap Ids(polls[q].sent) = {}

\* What a poll is to report when the request named by in.failed throws: the
\* other categories as fetched, and of the failed category the part given.
C30Expected(in, ofFailedCI) ==
  LET ok == [in EXCEPT !.failed = "none"]
  IN (IF in.failed = "reviews" THEN << >> ELSE GetCursorbotComments(ReviewRawOf(ok)))
     \o (IF in.failed = "comments" THEN << >> ELSE GetPRIssueComments(CommentRawOf(ok)))
     \o (IF in.failed = "ciPr" THEN << >>
         ELSE IF in.failed = "ciStatuses" THEN ofFailedCI
         ELSE GetCIFailures(CIRawOf(ok)))

C30Holds(ofFailedCI) ==
  (call.fn = "pollForIssues" /\ call.done /\ call.arg.failed # "none")
  => LET in == call.arg
         expected == C30Expected(in, ofFailedCI)
     IN /\ call.ret.out.rec = IdlePoll
        /\ call.ret.allIssues = expected
        /\ call.ret.out.g.seen = in.seen \cup Ids(expected)
        /\ call.ret.out.g.prev = (Blocking(expected) # {})
        /\ call.ret.out.g.last =
             (IF in.failed # "queue" /\ in.inQueue THEN "QUEUED" ELSE NULL)

C31_OnlyBadRecordSkipped ==
  (call.fn = "getCIFailures.batch" /\ call.done)
  => LET raw == call.arg.raw
         kr == NullAt(raw.runs, 1)
         ks == NullAt(raw.statuses, 1)
         rest == [raw EXCEPT !.runs = IF kr > 0 THEN RemoveAt(@, kr) ELSE @,
                             !.statuses = IF ks > 0 THEN RemoveAt(@, ks) ELSE @]
     IN call.ret = GetCIFailures(rest)

\* C32, as claimed: every commit status in state failure or error that
\* duplicates no failed check run (neither its URL nor its name) gives an
\* issue, whatever the other commit statuses are.
C32_StatusNeverDroppedForStatus ==
  (call.fn = "getCIFailures" /\ call.done)
    => LET runs == call.arg.runs
           statuses == call.arg.statuses
           OfRun(s) == \E k \in 1..Len(runs) :
                          /\ FailedRun(runs[k])
                          /\ \/ runs[k].url = s.target_url
                             \/ ToLowerCase(runs[k].name) = ToLowerCase(s.context)
       IN \A j \in 1..Len(statuses) :
            (statuses[j].state \in {"failure", "error"} /\ ~OfRun(statuses[j]))
              => StatusId(statuses[j].id) \in Ids(call.ret)

\* C33, as claimed: the comment of an author whose login contains a name of
\* the roster, in whatever case, gives an issue when it is in a review thread
\* and when it is a general comment; the comment of anyone else gives none.
C33_SameRosterForBothKinds ==
  (call.fn = "comments" /\ call.done)
  => LET OnRoster ==
           /\ call.arg # NoName
           /\ \E i \in 1..Len(REVIEW_BOTS) : Includes(ToLowerCase(call.arg), REVIEW_BOTS[i])
     IN /\ OnRoster => (Ids(call.ret.review) = {ReviewId(1)}
                        /\ Ids(call.ret.general) = {CommentId(2)})
        /\ ~OnRoster => (call.ret.review = << >> /\ call.ret.general = << >>)

\* C34: an issue made of a review comment or of a general comment is never
\* non-blocking, and a poll whose active list holds one records that a
\* blocking issue is present; only CI issues are non-blocking.
C34_CommentsAlwaysBlock ==
  (call.fn = "pollForIssues" /\ call.done)
  => LET allIssues == call.ret.allIssues
     IN \A i \in 1..Len(allIssues) :
          /\ allIssues[i].type \in {"review_bot", "cursorbot"}
               => (~allIssues[i].nonBlocking /\ call.ret.out.g.prev)
          /\ allIssues[i].nonBlocking => allIssues[i].type = "ci_failure"

\* A poll whose only issues are a general comment and a non-blocking CI
\* failure: it counts a blocking issue.
C34_Witness ==
  /\ call.fn = "pollForIssues"
  /\ call.done
  /\ Len(call.ret.allIssues) = 2
  /\ call.ret.allIssues[1].type = "cursorbot"
  /\ call.ret.allIssues[2].nonBlocking
  /\ call.ret.out.g.prev

C35Texts(withEta) ==
  (call.fn = "checkMergeQueueStatus" /\ call.done)
  => LET state == call.arg.state
         position == call.arg.position
         d == call.ret.displayState
     IN /\ state = "MERGEABLE" => d.text = "Ready to merge (at front of queue)"
        /\ (state \in {"AWAITING_CHECKS", "QUEUED", "UNMERGEABLE"} /\ position > 0)
             => (/\ d.text \in {"Waiting (N PR ahead)", "In queue (N PR ahead)"}
                 /\ d.ahead = position
                 /\ d.plural = (position > 1))
        /\ (state = "UNMERGEABLE" /\ position = 0)
             => d.text = "Cannot merge (check for conflicts)"
        /\ state = "LOCKED" => d.text = "Queue is locked"
        /\ (earlier.fn = "checkMergeQueueStatus"
            /\ earlier.arg.state = state /\ earlier.arg.position = position)
             => IF withEta
                THEN d = earlier.ret.displayState
                ELSE [d EXCEPT !.eta = NoEta] = [earlier.ret.displayState EXCEPT !.eta = NoEta]

\* C35, as claimed: the display state is the ready text for MERGEABLE, a
\* waiting text naming the position for AWAITING_CHECKS, QUEUED and
\* UNMERGEABLE behind others, the conflicts text for UNMERGEABLE at the front,
\* the locked text for LOCKED, and two polls that find the same state and
\* position show the same display state.
C35_DisplayOfStateAndPosition == C35Texts(TRUE)

\* C35, amended: the same, where two polls that find the same state and
\* position show the same display state up to the ETA appended to it.
C35_DisplayUpToEta == C35Texts(FALSE)

\* Two polls found UNMERGEABLE behind two PRs, the first with no estimate and
\* the second with one of 90 minutes.
C35_Witness ==
  /\ call.fn = "checkMergeQueueStatus"
  /\ call.done
  /\ earlier.fn = "checkMergeQueueStatus"
  /\ call.arg.state = "UNMERGEABLE"
  /\ call.arg.position = 2
  /\ earlier.ret.displayState.eta = NoEta
  /\ call.ret.displayState.eta = [h |-> 1, m |-> 30]
  /\ call.ret.displayState.plural

\* C36, as claimed: the queue state that pollForIssues tracks for a PR in the
\* queue is one of the five known states, whatever state the entry reports.
C36_UnknownStateIsUnmergeable ==
  (call.fn = "checkMergeQueueStatus" /\ call.done)
  => /\ call.ret.currentQueueState \in InQueueStates
     /\ call.arg.state \notin InQueueStates => call.ret.currentQueueState = "UNMERGEABLE"

\* C37, as claimed: seenIssueIds, notifiedReadyToMerge,
\* previouslyHadBlockingIssues and lastMergeQueueState start empty, false,
\* false and null, and a step changes one of them only if it is the step in
\* which a call of pollForIssues returns.
C37_WrittenOnlyAtCompletion ==
  /\ (seenIssueIds = {} /\ ~notifiedReadyToMerge
      /\ ~previouslyHadBlockingIssues /\ lastMergeQueueState = NULL)
  /\ [][ << seenIssueIds, notifiedReadyToMerge,
            previouslyHadBlockingIssues, lastMergeQueueState >>'
           # << seenIssueIds, notifiedReadyToMerge,
                previouslyHadBlockingIssues, lastMergeQueueState >>
         => \E p \in Slots : polls[p].pc # "idle" /\ polls'[p].pc = "idle" ]_vars

\* C38, as claimed: a watch_pr call that returns an error without fetching
\* leaves watchedPR and handledIssueIds as they were, and as long as no
\* watch_pr call has returned without error, check_for_issues and
\* get_issue_details answer 'No PR being watched' without fetching.
C38_FailedWatchChangesNothing ==
  [][ /\ (mcp.pc = "idle" /\ mcp'.pc = "idle"
          /\ mcp'.response.kind \in {"invalidReference", "noRepository"})
           => (mcp'.watchedPR = mcp.watchedPR
               /\ mcp'.handledIssueIds = mcp.handledIssueIds)
      /\ ~mcp.watched => (mcp.pc = "idle" => mcp'.pc \notin {"check", "details"}) ]_vars

\* C39, as claimed: the id of every issue of the active list of a poll (a
\* review comment, a general comment, a failed check run and a failed commit
\* status are on the platform) has a format that getIssueDetail accepts.
C39_DetailAcceptsEveryId ==
  (call.fn = "fetchers" /\ call.done)
  => \A i \in 1..Len(call.ret) : ValidIssueIdFormat(call.ret[i].id)

====
